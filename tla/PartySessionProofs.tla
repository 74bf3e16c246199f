-------------------------- MODULE PartySessionProofs --------------------------
(***************************************************************************)
(* Proofs about parties, for any users, tabs, party size and order of      *)
(* requests: the type invariant, that a user's key names a party they are  *)
(* listed in, and that their tabs are in its room.  The second needs that  *)
(* a party is made under a new id: otherwise creating one could take a     *)
(* party from under its members' keys.  The third needs what the replies   *)
(* under way still do: the last one that tells a tab of its party or takes *)
(* it out decides, and each says what the key says by then.                *)
(***************************************************************************)
EXTENDS PartySession, FiniteSetTheorems, TLAPS

\* What is in Redis, as far as the keys go.
Sound ==
  /\ parties \in [Party -> Record \cup {NoRecord}]
  /\ \A p \in Party : Cardinality(parties[p].members) <= MaxSize /\ parties[p].leader \subseteq parties[p].members
  /\ playerParty \in [User -> MaybeParty]
  /\ minted \in SUBSET Party
  /\ \A p \in Party : Exists(p) => p \in minted
  /\ KeyMeansMember

\* The rest of the type invariant.
Typed ==
  /\ invites \in SUBSET (User \X Party)
  /\ asked \in SUBSET (User \X Party)
  /\ sock \in [Tab -> {"new", "on", "gone"}]
  /\ active \in [Tab -> MaybeParty]
  /\ rooms \in [Tab -> SUBSET Party]
  /\ wire \in Seq(Frame)
  /\ sweeps \in SUBSET [party : Party, tabs : SUBSET Tab]
  /\ ready \in 0 .. Len(wire)
  /\ budget \in 0 .. MaxRequests
  /\ hurried \in SUBSET User
  /\ overtaken \in SUBSET Tab

IInv == Sound /\ Typed

-----------------------------------------------------------------------------
(* The scripts *)

\* A record that is not the empty one lists somebody.
LEMMA RecordsList ==
  ASSUME NEW r \in Record \cup {NoRecord}
  PROVE  /\ r.members \in SUBSET User /\ r.leader \in SUBSET User
         /\ r # NoRecord => r \in Record /\ r.members # {}
         /\ r = NoRecord => r.members = {} /\ r.leader = {}
BY DEF Record, NoRecord

\* The members of a party are finitely many.
LEMMA MembersFinite ==
  ASSUME NEW S \in SUBSET User
  PROVE  IsFiniteSet(S) /\ Cardinality(S) \in Nat
BY FS_Subset, FS_CardinalityType, PartySessionAssumption

\* With fewer members than before a party still fits.
LEMMA FewerFit ==
  ASSUME NEW S \in SUBSET User, NEW T \in SUBSET S, Cardinality(S) <= MaxSize
  PROVE  Cardinality(T) <= MaxSize
<1>1. Cardinality(T) <= Cardinality(S)
  BY MembersFinite, FS_Subset
<1>2. T \in SUBSET User
  OBVIOUS
<1>. QED
  BY <1>1, <1>2, MembersFinite, PartySessionAssumption

\* createParty, under an id that was never used.
LEMMA CreateSound ==
  ASSUME Sound, NEW p \in Party, NEW u \in User, p \notin minted,
         minted' = minted \cup {p}, CreateScript(p, u)
  PROVE  Sound'
<1>. DEFINE r == [leader |-> {u}, members |-> {u}]
<1>0. r \in Record
  BY DEF Record
<1>1. parties' = [parties EXCEPT ![p] = r] /\ playerParty' = [playerParty EXCEPT ![u] = p]
  BY DEF CreateScript
<1>2. parties' \in [Party -> Record \cup {NoRecord}] /\ playerParty' \in [User -> MaybeParty]
  BY <1>0, <1>1 DEF Sound, MaybeParty
<1>3. \A q \in Party : parties'[q] = IF q = p THEN r ELSE parties[q]
  BY <1>1 DEF Sound
<1>4. \A q \in Party : Cardinality(parties'[q].members) <= MaxSize /\ parties'[q].leader \subseteq parties'[q].members
  <2>1. Cardinality(r.members) <= MaxSize /\ r.leader \subseteq r.members
    BY FS_Singleton, PartySessionAssumption
  <2>. QED
    BY <2>1, <1>3 DEF Sound
<1>5. minted' \in SUBSET Party /\ \A q \in Party : Exists(q)' => q \in minted'
  BY <1>3 DEF Sound, Exists
<1>6. KeyMeansMember'
  <2>1. SUFFICES ASSUME NEW v \in User, playerParty'[v] # NoParty
                 PROVE  v \in parties'[playerParty'[v]].members
    BY DEF KeyMeansMember
  <2>2. CASE v = u
    BY <2>2, <1>1, <1>3 DEF Sound
  <2>3. CASE v # u
    <3>1. playerParty'[v] = playerParty[v] /\ playerParty[v] \in Party
      BY <2>1, <2>3, <1>1 DEF Sound, MaybeParty
    <3>2. v \in parties[playerParty[v]].members
      BY <2>1, <3>1 DEF Sound, KeyMeansMember
    <3>3. parties[playerParty[v]] # NoRecord
      BY <3>2 DEF NoRecord
    <3>4. playerParty[v] # p
      BY <3>1, <3>3 DEF Sound, Exists
    <3>. QED
      BY <3>1, <3>2, <3>4, <1>3
  <2>. QED
    BY <2>2, <2>3
<1>. QED
  BY <1>2, <1>4, <1>5, <1>6 DEF Sound

\* joinParty, when the script lets the user in.
LEMMA JoinSound ==
  ASSUME Sound, NEW p \in Party, NEW u \in User, MayJoin(p, u), JoinScript(p, u), minted' = minted
  PROVE  Sound'
<1>. DEFINE r == [parties[p] EXCEPT !.members = @ \cup {u}]
<1>0. /\ parties[p] \in Record /\ playerParty[u] \in {p, NoParty}
      /\ Cardinality(parties[p].members) < MaxSize /\ u \notin parties[p].members
  BY RecordsList DEF Sound, MayJoin, Exists
<1>1. r \in Record /\ r.members = parties[p].members \cup {u} /\ r.leader = parties[p].leader
  BY <1>0 DEF Record
<1>2. parties' = [parties EXCEPT ![p] = r] /\ playerParty' = [playerParty EXCEPT ![u] = p]
  BY DEF JoinScript
<1>3. parties' \in [Party -> Record \cup {NoRecord}] /\ playerParty' \in [User -> MaybeParty]
  BY <1>1, <1>2 DEF Sound, MaybeParty
<1>4. \A q \in Party : parties'[q] = IF q = p THEN r ELSE parties[q]
  BY <1>2 DEF Sound
<1>5. Cardinality(r.members) <= MaxSize
  <2>1. parties[p].members \in SUBSET User
    BY <1>0 DEF Record
  <2>2. Cardinality(r.members) = Cardinality(parties[p].members) + 1
    BY <1>0, <1>1, <2>1, MembersFinite, FS_AddElement
  <2>. QED
    BY <1>0, <2>1, <2>2, MembersFinite, PartySessionAssumption
<1>6. \A q \in Party : Cardinality(parties'[q].members) <= MaxSize /\ parties'[q].leader \subseteq parties'[q].members
  BY <1>1, <1>4, <1>5 DEF Sound
<1>7. \A q \in Party : Exists(q)' => q \in minted'
  BY <1>4, <1>0 DEF Sound, MayJoin, Exists
<1>8. KeyMeansMember'
  <2>1. \A q \in Party : parties[q].members \subseteq parties'[q].members
    BY <1>1, <1>4
  <2>2. \A v \in User : v # u => playerParty'[v] = playerParty[v]
    BY <1>2 DEF Sound
  <2>3. playerParty'[u] = p /\ u \in parties'[p].members
    BY <1>1, <1>2, <1>4 DEF Sound
  <2>. QED
    BY <2>1, <2>2, <2>3 DEF Sound, KeyMeansMember, MaybeParty
<1>. QED
  BY <1>3, <1>6, <1>7, <1>8 DEF Sound

\* Deleting keys, and a party that nobody's key names, loses nothing else.
LEMMA KeysDeleted ==
  ASSUME Sound, NEW p \in Party, NEW r \in Record \cup {NoRecord}, NEW freed \in SUBSET User,
         parties' = [parties EXCEPT ![p] = r],
         playerParty' = [v \in User |-> IF v \in freed THEN NoParty ELSE playerParty[v]],
         minted' = minted,
         r.leader \subseteq r.members, r.members \subseteq parties[p].members,
         parties[p].members \ r.members \subseteq freed
  PROVE  Sound'
<1>1. parties' \in [Party -> Record \cup {NoRecord}] /\ playerParty' \in [User -> MaybeParty]
  BY DEF Sound, MaybeParty
<1>2. \A q \in Party : parties'[q] = IF q = p THEN r ELSE parties[q]
  BY DEF Sound
<1>3. parties[p].members \in SUBSET User
  BY RecordsList DEF Sound
<1>4. Cardinality(r.members) <= MaxSize
  BY <1>3, FewerFit DEF Sound
<1>5. \A q \in Party : Cardinality(parties'[q].members) <= MaxSize /\ parties'[q].leader \subseteq parties'[q].members
  BY <1>2, <1>4 DEF Sound
<1>6. \A q \in Party : Exists(q)' => q \in minted'
  <2>1. r # NoRecord => parties[p] # NoRecord
    BY RecordsList DEF Sound
  <2>. QED
    BY <2>1, <1>2 DEF Sound, Exists
<1>7. KeyMeansMember'
  <2>1. SUFFICES ASSUME NEW v \in User, playerParty'[v] # NoParty
                 PROVE  v \in parties'[playerParty'[v]].members
    BY DEF KeyMeansMember
  <2>2. v \notin freed /\ playerParty'[v] = playerParty[v] /\ playerParty[v] \in Party
    BY <2>1 DEF Sound, MaybeParty
  <2>3. v \in parties[playerParty[v]].members
    BY <2>1, <2>2 DEF Sound, KeyMeansMember
  <2>. QED
    BY <2>2, <2>3, <1>2
<1>. QED
  BY <1>1, <1>5, <1>6, <1>7 DEF Sound

\* leaveParty, whatever party the user's key names.
LEMMA LeaveSound ==
  ASSUME Sound, NEW p \in Party, NEW u \in User, LeaveScript(p, u), minted' = minted
  PROVE  Sound'
<1>. DEFINE freed == {u} \cup (IF Disbands(p, u) THEN parties[p].members ELSE {})
            r == IF Disbands(p, u) THEN NoRecord ELSE [parties[p] EXCEPT !.members = @ \ {u}]
<1>1. /\ parties' = [parties EXCEPT ![p] = r]
      /\ playerParty' = [v \in User |-> IF v \in freed THEN NoParty ELSE playerParty[v]]
  <2>1. parties' = [parties EXCEPT ![p] = r]
    BY DEF LeaveScript, Without
  <2>2. playerParty' = [v \in User |-> IF v \in freed THEN NoParty ELSE playerParty[v]]
    BY DEF LeaveScript
  <2>. QED
    BY <2>1, <2>2
<1>2. /\ parties[p] \in Record \cup {NoRecord}
      /\ parties[p].leader \subseteq parties[p].members
      /\ parties[p].members \in SUBSET User
  BY RecordsList DEF Sound
<1>3. freed \in SUBSET User
  BY <1>2
<1>4. CASE Disbands(p, u)
  <2>1. r = NoRecord /\ parties[p].members \subseteq freed
    BY <1>4
  <2>2. r \in Record \cup {NoRecord} /\ r.leader = {} /\ r.members = {}
    BY <2>1 DEF NoRecord
  <2>. QED
    BY <1>1, <1>3, <2>1, <2>2, KeysDeleted
<1>5. CASE ~Disbands(p, u)
  <2>1. parties[p] \in Record /\ parties[p].leader # {u} /\ parties[p].members \ {u} # {}
    BY <1>2, <1>5 DEF Disbands, Exists
  <2>2. PICK l \in User : parties[p].leader = {l}
    BY <2>1 DEF Record
  <2>3. /\ r = [parties[p] EXCEPT !.members = @ \ {u}]
        /\ r.members = parties[p].members \ {u} /\ r.leader = {l}
    BY <1>5, <2>1, <2>2 DEF Record
  <2>4. r \in Record
    BY <2>1, <2>3 DEF Record
  <2>5. r.leader \subseteq r.members /\ r.members \subseteq parties[p].members
    BY <1>2, <2>1, <2>2, <2>3
  <2>6. parties[p].members \ r.members \subseteq freed
    BY <2>3
  <2>. QED
    BY <1>1, <1>3, <2>4, <2>5, <2>6, KeysDeleted
<1>. QED
  BY <1>4, <1>5

\* kickFromParty, when who asks leads the party.
LEMMA KickSound ==
  ASSUME Sound, NEW p \in Party, NEW u \in User, NEW target \in User,
         MayKick(p, u, target), KickScript(p, target), minted' = minted
  PROVE  Sound'
<1>. DEFINE r == [parties[p] EXCEPT !.members = @ \ {target}]
<1>1. /\ parties[p] \in Record \cup {NoRecord} /\ parties[p].leader = {u} /\ u # target
      /\ u \in parties[p].members
  BY DEF Sound, MayKick
<1>2. parties[p] \in Record
  BY <1>1 DEF NoRecord
<1>3. r.members = parties[p].members \ {target} /\ r.leader = {u}
  BY <1>1, <1>2 DEF Record
<1>4. r \in Record
  BY <1>1, <1>2 DEF Record
<1>5. parties' = [parties EXCEPT ![p] = r]
  BY DEF KickScript
<1>6. playerParty' = [v \in User |-> IF v \in {target} THEN NoParty ELSE playerParty[v]]
  BY DEF KickScript, Sound
<1>7. r.leader \subseteq r.members
  BY <1>1, <1>3
<1>. QED
  BY <1>3, <1>4, <1>5, <1>6, <1>7, KeysDeleted

\* What leaves the two records of Redis alone, and uses up no fewer ids.
LEMMA UntouchedSound ==
  ASSUME Sound, UNCHANGED <<parties, playerParty, minted>>
  PROVE  Sound'
BY DEF Sound, Exists, KeyMeansMember

-----------------------------------------------------------------------------
(* The answers under way *)

\* What a frame carries, by the step it is for.
LEMMA FrameCarries ==
  ASSUME NEW f \in Frame
  PROVE  /\ f.at \in {"created", "accept", "joined", "accepted"} =>
              /\ f.tab \in Tab /\ f.party \in Party
              /\ [f EXCEPT !.at = "joined"] \in Frame /\ [f EXCEPT !.at = "accepted"] \in Frame
         /\ f.at = "checkInvite" => f.tab \in Tab /\ f.party \in Party /\ f.target \in User
         /\ f.at = "left" => f.tab \in Tab /\ f.party \in Party
         /\ f.at = "kicked" => f.tab \in Tab /\ f.party \in Party /\ f.target \in User
         /\ f.at \in {"syncKey", "syncParty", "restore"} =>
              /\ f.tab \in Tab /\ f.party \in MaybeParty
              /\ \A p \in MaybeParty : [f EXCEPT !.at = "syncParty", !.party = p] \in Frame
         /\ f.at = "dropped" => f.tab \in Tab /\ f.others \in SUBSET Tab
         /\ f.at = "goneLeft" => f.party \in Party
BY DEF Frame

\* The queue stays one when its head is taken and when a frame is added.
LEMMA Queue ==
  ASSUME wire \in Seq(Frame)
  PROVE  /\ wire # <<>> => Reply \in Frame /\ Tail(wire) \in Seq(Frame)
         /\ \A f \in Frame : Append(wire, f) \in Seq(Frame)
         /\ \A f \in Frame : wire # <<>> => Append(Tail(wire), f) \in Seq(Frame)
BY DEF Reply

\* As many answers may go first as there are.
LEMMA ReadyAppend ==
  ASSUME Typed, NEW f \in Frame, wire' = Append(wire, f), ready' = ready
  PROVE  ready' \in 0 .. Len(wire')
<1>1. Len(wire') = Len(wire) + 1 /\ Len(wire) \in Nat
  BY DEF Typed
<1>. QED
  BY <1>1 DEF Typed

LEMMA Readies ==
  ASSUME Typed, NEW step, Resumes(step), Continue
  PROVE  /\ wire' = Tail(wire) => sweeps' = sweeps /\ ready' \in 0 .. Len(wire')
         /\ \A f \in Frame : wire' = Append(Tail(wire), f) => sweeps' = sweeps /\ ready' \in 0 .. Len(wire')
<1>1. Passed \in 0 .. Len(wire) - 1 /\ sweeps' = sweeps /\ ready' = Passed /\ Len(wire) \in Nat \ {0}
  BY DEF Resumes, Continue, Passed, Typed
<1>2. Tail(wire) \in Seq(Frame) /\ Len(Tail(wire)) = Len(wire) - 1
  BY DEF Resumes, Typed
<1>3. \A f \in Frame : Len(Append(Tail(wire), f)) = Len(wire)
  BY <1>1, <1>2
<1>. QED
  BY <1>1, <1>2, <1>3

\* A request takes one from the budget.
LEMMA Spent ==
  ASSUME budget \in 0 .. MaxRequests, NEW kind, Spend(kind)
  PROVE  budget' \in 0 .. MaxRequests
BY PartySessionAssumption DEF Spend

\* What a request does besides its reading and writing.
LEMMA Asked ==
  ASSUME Typed, NEW t \in Tab, NEW kind, Ask(t, kind)
  PROVE  /\ budget' \in 0 .. MaxRequests /\ hurried' \in SUBSET User
         /\ sweeps' = sweeps /\ ready' = ready
         /\ wire' = wire => ready' \in 0 .. Len(wire')
<1>1. Spend(kind) /\ Owner[t] \in User /\ sweeps' = sweeps /\ ready' = ready
  BY PartySessionAssumption DEF Ask, Idle
<1>2. budget' \in 0 .. MaxRequests
  BY <1>1, Spent DEF Typed
<1>3. hurried' \in SUBSET User
  BY <1>1 DEF Ask, Typed
<1>. QED
  BY <1>1, <1>2, <1>3 DEF Typed

-----------------------------------------------------------------------------
(* Every step keeps the invariant *)

\* A tab is told of a party or of none, and is in rooms of parties.
LEMMA Moved ==
  ASSUME Typed, NEW u \in User, NEW p \in MaybeParty, SetMembership(u, p)
  PROVE  /\ active' \in [Tab -> MaybeParty] /\ rooms' \in [Tab -> SUBSET Party]
         /\ overtaken' \in SUBSET Tab
<1>1. active' \in [Tab -> MaybeParty]
  BY DEF SetMembership, Typed
<1>2. rooms' \in [Tab -> SUBSET Party]
  BY DEF SetMembership, Typed
<1>3. overtaken' \in SUBSET Tab
  BY DEF SetMembership, Typed
<1>. QED
  BY <1>1, <1>2, <1>3

\* The sockets fetched are tabs, and no more answers go first than there are.
LEMMA Fetched ==
  ASSUME Typed, NEW step, Resumes(step), NEW p \in Party, NEW who, Fetch(p, who)
  PROVE  /\ wire' \in Seq(Frame) /\ ready' \in 0 .. Len(wire')
         /\ sweeps' \in SUBSET [party : Party, tabs : SUBSET Tab]
<1>. DEFINE tabs == {t \in Tab : sock[t] = "on" /\ p \in rooms'[t] /\ Owner[t] \in who}
<1>1. wire' = Tail(wire) /\ Tail(wire) \in Seq(Frame) /\ Len(Tail(wire)) = Len(wire) - 1 /\ Len(wire) \in Nat \ {0}
  BY DEF Fetch, Resumes, Typed
<1>2. CASE Continue
  BY <1>1, <1>2, Readies DEF Typed
<1>3. CASE sweeps' = sweeps \cup {[party |-> p, tabs |-> tabs]} /\ ready' \in IF sweeps = {} THEN 0 .. Len(Tail(wire)) ELSE {Passed}
  <2>1. ready' \in 0 .. Len(wire')
    BY <1>1, <1>3 DEF Passed, Resumes, Typed
  <2>2. [party |-> p, tabs |-> tabs] \in [party : Party, tabs : SUBSET Tab]
    OBVIOUS
  <2>. QED
    BY <1>1, <1>3, <2>1, <2>2 DEF Typed
<1>. QED
  BY <1>2, <1>3 DEF Fetch

\* handlePartyDisconnect
LEMMA DropKeeps ==
  ASSUME Sound, active \in [Tab -> MaybeParty], minted' = minted, NEW t \in Tab, NEW others,
         NEW after \in Seq(Frame), LeaveOnDrop(t, others, after)
  PROVE  Sound' /\ wire' \in Seq(Frame) /\ Len(after) <= Len(wire')
<1>1. CASE active[t] = NoParty \/ \E s \in others : active[s] = active[t]
  <2>1. UNCHANGED <<parties, playerParty>> /\ wire' = after
    BY <1>1 DEF LeaveOnDrop
  <2>. QED
    BY <2>1, UntouchedSound
<1>2. CASE ~(active[t] = NoParty \/ \E s \in others : active[s] = active[t])
  <2>1. active[t] \in Party /\ Owner[t] \in User
    BY <1>2, PartySessionAssumption DEF MaybeParty
  <2>2. /\ LeaveScript(active[t], Owner[t])
        /\ wire' = Append(after, [at |-> "goneLeft", party |-> active[t],
                                  disbanded |-> Disbands(active[t], Owner[t])])
    BY <1>2 DEF LeaveOnDrop
  <2>3. [at |-> "goneLeft", party |-> active[t], disbanded |-> Disbands(active[t], Owner[t])] \in Frame
    BY <2>1 DEF Frame, Disbands
  <2>. QED
    BY <2>1, <2>2, <2>3, LeaveSound
<1>. QED
  BY <1>1, <1>2

\* Init establishes the invariant.
LEMMA InitKeeps == Init => IInv
<1>. SUFFICES ASSUME Init PROVE IInv
  OBVIOUS
<1>1. \A p \in Party : parties[p].members = {} /\ parties[p].leader = {}
  BY DEF Init, NoRecord
<1>2. \A p \in Party : Cardinality(parties[p].members) <= MaxSize /\ parties[p].leader \subseteq parties[p].members
  BY <1>1, FS_EmptySet, PartySessionAssumption
<1>3. Sound
  BY <1>2 DEF Init, Sound, MaybeParty, KeyMeansMember, Exists
<1>4. wire \in Seq(Frame) /\ ready \in 0 .. Len(wire)
  BY DEF Init
<1>. QED
  BY <1>3, <1>4, PartySessionAssumption DEF Init, IInv, Typed, MaybeParty

\* Every step keeps it.
LEMMA NextKeeps == IInv /\ [Next]_vars => IInv'
<1>. SUFFICES ASSUME IInv, [Next]_vars PROVE IInv'
  OBVIOUS
<1>. USE DEF IInv
<1>1. CASE UNCHANGED vars
  <2>1. Sound'
    BY <1>1, UntouchedSound DEF vars, storeVars
  <2>. QED
    BY <1>1, <2>1 DEF vars, storeVars, heard, asks, Typed
<1>2. ASSUME NEW t \in Tab, NEW p \in Party, AskCreate(t, p) PROVE IInv'
  <2>0. Owner[t] \in User
    BY PartySessionAssumption
  <2>1. Sound'
    <3>1. CASE playerParty[Owner[t]] = NoParty
      BY <1>2, <2>0, <3>1, CreateSound DEF AskCreate
    <3>2. CASE playerParty[Owner[t]] # NoParty
      BY <1>2, <3>2, UntouchedSound DEF AskCreate
    <3>. QED
      BY <3>1, <3>2
  <2>2. wire' \in Seq(Frame) /\ ready' \in 0 .. Len(wire')
    <3>1. [at |-> "created", tab |-> t, party |-> p] \in Frame
      BY DEF Frame
    <3>2. CASE wire' = wire
      BY <1>2, <3>2, Asked DEF AskCreate, Typed
    <3>3. CASE wire' = Append(wire, [at |-> "created", tab |-> t, party |-> p])
      <4>1. ready' = ready
        BY <1>2, Asked DEF AskCreate
      <4>. QED
        BY <3>1, <3>3, <4>1, Queue, ReadyAppend DEF Typed
    <3>. QED
      BY <1>2, <3>2, <3>3 DEF AskCreate, Issue
  <2>. QED
    BY <1>2, <2>1, <2>2, Asked DEF AskCreate, heard, Typed
<1>3. ASSUME NEW t \in Tab, NEW u \in User, AskInvite(t, u) PROVE IInv'
  <2>1. Sound'
    BY <1>3, UntouchedSound DEF AskInvite, storeVars
  <2>2. active[t] \in Party /\ parties[active[t]] \in Record \cup {NoRecord}
    BY <1>3 DEF AskInvite, Typed, Sound, MaybeParty
  <2>3. [at |-> "checkInvite", tab |-> t, party |-> active[t], target |-> u, copy |-> parties[active[t]]] \in Frame
    BY <2>2 DEF Frame
  <2>4. wire' \in Seq(Frame) /\ ready' \in 0 .. Len(wire')
    <3>1. ready' = ready
      BY <1>3, Asked DEF AskInvite
    <3>. QED
      BY <1>3, <2>3, <3>1, Queue, ReadyAppend DEF AskInvite, Issue, Typed
  <2>. QED
    BY <1>3, <2>1, <2>4, Asked DEF AskInvite, heard, Typed, storeVars
<1>4. ASSUME NEW u \in User, NEW p \in Party, Invite(u, p) PROVE IInv'
  BY <1>4, UntouchedSound DEF Invite, Idle, heard, asks, Typed
<1>5. ASSUME NEW t \in Tab, NEW p \in Party, AskAccept(t, p) PROVE IInv'
  <2>1. Sound'
    BY <1>5, UntouchedSound DEF AskAccept, storeVars
  <2>2. [at |-> "accept", tab |-> t, party |-> p] \in Frame
    BY DEF Frame
  <2>3. wire' \in Seq(Frame) /\ ready' \in 0 .. Len(wire')
    <3>1. ready' = ready
      BY <1>5, Asked DEF AskAccept
    <3>. QED
      BY <1>5, <2>2, <3>1, Queue, ReadyAppend DEF AskAccept, Issue, Typed
  <2>. QED
    BY <1>5, <2>1, <2>3, Asked DEF AskAccept, heard, Typed, storeVars
<1>6. CASE Accept
  <2>1. Reply \in Frame /\ Reply.tab \in Tab /\ Reply.party \in Party /\ Owner[Reply.tab] \in User
    BY <1>6, Queue, FrameCarries, PartySessionAssumption DEF Accept, Resumes, Typed
  <2>2. Sound'
    <3>1. CASE MayJoin(Reply.party, Owner[Reply.tab])
      BY <1>6, <2>1, <3>1, JoinSound DEF Accept
    <3>2. CASE ~MayJoin(Reply.party, Owner[Reply.tab])
      BY <1>6, <3>2, UntouchedSound DEF Accept
    <3>. QED
      BY <3>1, <3>2
  <2>3. wire' \in Seq(Frame) /\ sweeps' = sweeps /\ ready' \in 0 .. Len(wire')
    <3>1. Resumes("accept") /\ [Reply EXCEPT !.at = "joined"] \in Frame /\ Tail(wire) \in Seq(Frame)
      BY <1>6, <2>1, Queue, FrameCarries DEF Accept, Resumes, Typed
    <3>2. CASE Return
      BY <3>1, <3>2, Readies DEF Return
    <3>3. CASE Then([Reply EXCEPT !.at = "joined"])
      BY <3>1, <3>3, Readies, Queue DEF Then, Resumes, Typed
    <3>. QED
      BY <1>6, <3>2, <3>3 DEF Accept
  <2>. QED
    BY <1>6, <2>2, <2>3 DEF Accept, heard, asks, Typed
<1>7. ASSUME NEW t \in Tab, NEW p \in Party, Decline(t, p) PROVE IInv'
  <2>1. Sound'
    BY <1>7, UntouchedSound DEF Decline
  <2>. QED
    BY <1>7, <2>1, Asked DEF Decline, heard, Typed
<1>8. ASSUME NEW t \in Tab, AskLeave(t) PROVE IInv'
  <2>1. active[t] \in Party /\ Owner[t] \in User
    BY <1>8, PartySessionAssumption DEF AskLeave, Typed, MaybeParty
  <2>2. Sound'
    BY <1>8, <2>1, LeaveSound DEF AskLeave
  <2>3. [at |-> "left", tab |-> t, party |-> active[t], disbanded |-> Disbands(active[t], Owner[t])] \in Frame
    BY <2>1 DEF Frame, Disbands
  <2>4. wire' \in Seq(Frame) /\ ready' \in 0 .. Len(wire')
    <3>1. ready' = ready
      BY <1>8, Asked DEF AskLeave
    <3>. QED
      BY <1>8, <2>3, <3>1, Queue, ReadyAppend DEF AskLeave, Issue, Typed
  <2>. QED
    BY <1>8, <2>2, <2>4, Asked DEF AskLeave, heard, Typed
<1>9. ASSUME NEW t \in Tab, NEW u \in User, AskKick(t, u) PROVE IInv'
  <2>1. active[t] \in Party /\ Owner[t] \in User
    BY <1>9, PartySessionAssumption DEF AskKick, Typed, MaybeParty
  <2>2. Sound'
    BY <1>9, <2>1, KickSound DEF AskKick
  <2>3. [at |-> "kicked", tab |-> t, party |-> active[t], target |-> u] \in Frame
    BY <2>1 DEF Frame
  <2>4. wire' \in Seq(Frame) /\ ready' \in 0 .. Len(wire')
    <3>1. ready' = ready
      BY <1>9, Asked DEF AskKick
    <3>. QED
      BY <1>9, <2>3, <3>1, Queue, ReadyAppend DEF AskKick, Issue, Typed
  <2>. QED
    BY <1>9, <2>2, <2>4, Asked DEF AskKick, heard, Typed
<1>10. CASE Created \/ Accepted \/ Sync \/ Restore
  <2>1. Sound'
    BY <1>10, UntouchedSound DEF Created, Accepted, Sync, Restore, storeVars
  <2>2. Reply \in Frame /\ Reply.tab \in Tab /\ Reply.party \in MaybeParty /\ Tail(wire) \in Seq(Frame)
    BY <1>10, Queue, FrameCarries DEF Created, Accepted, Sync, Restore, Resumes, Typed, MaybeParty
  <2>3. Owner[Reply.tab] \in User
    BY <2>2, PartySessionAssumption
  <2>4. active' \in [Tab -> MaybeParty] /\ rooms' \in [Tab -> SUBSET Party] /\ overtaken' \in SUBSET Tab
    <3>1. CASE Restore
      BY <2>2, <3>1 DEF Restore, Typed, MaybeParty, heard
    <3>. QED
      BY <1>10, <2>2, <2>3, <3>1, Moved DEF Created, Accepted, Sync
  <2>5. sweeps' = sweeps /\ ready' \in 0 .. Len(wire')
    BY <1>10, Readies DEF Created, Accepted, Sync, Restore, Return
  <2>. QED
    BY <1>10, <2>1, <2>2, <2>4, <2>5 DEF Created, Accepted, Sync, Restore, Return, Typed, storeVars, asks
<1>11. CASE CheckInvite
  <2>1. Sound'
    BY <1>11, UntouchedSound DEF CheckInvite, storeVars
  <2>2. Reply.party \in Party /\ Reply.target \in User /\ Tail(wire) \in Seq(Frame)
    BY <1>11, Queue, FrameCarries DEF CheckInvite, Resumes, Typed
  <2>3. sweeps' = sweeps /\ ready' \in 0 .. Len(wire')
    BY <1>11, Readies DEF CheckInvite, Return
  <2>. QED
    BY <1>11, <2>1, <2>2, <2>3 DEF CheckInvite, Return, Typed, storeVars, heard, asks
<1>12. CASE RemoveInvite
  <2>1. Sound'
    BY <1>12, UntouchedSound DEF RemoveInvite
  <2>2. wire # <<>> /\ [Reply EXCEPT !.at = "accepted"] \in Frame
    BY <1>12, Queue, FrameCarries DEF RemoveInvite, Resumes, Typed
  <2>3. wire' \in Seq(Frame) /\ sweeps' = sweeps /\ ready' \in 0 .. Len(wire')
    BY <1>12, <2>2, Queue, Readies DEF RemoveInvite, Then, Typed
  <2>. QED
    BY <1>12, <2>1, <2>2, <2>3 DEF RemoveInvite, Typed, heard, asks
<1>13. CASE Left \/ Kicked \/ GoneLeft
  <2>1. Sound'
    BY <1>13, UntouchedSound DEF Left, Kicked, GoneLeft, storeVars
  <2>2. /\ Reply.party \in Party /\ Tail(wire) \in Seq(Frame)
        /\ \E step : Resumes(step)
    BY <1>13, Queue, FrameCarries DEF Left, Kicked, GoneLeft, Resumes, Typed
  <2>3. active' \in [Tab -> MaybeParty] /\ rooms' \in [Tab -> SUBSET Party] /\ overtaken' \in SUBSET Tab
    <3>1. CASE Left
      <4>1. Owner[Reply.tab] \in User
        BY <3>1, Queue, FrameCarries, PartySessionAssumption DEF Left, Resumes, Typed
      <4>. QED
        BY <3>1, <4>1, Moved DEF Left, MaybeParty
    <3>. QED
      BY <1>13, <3>1 DEF Kicked, GoneLeft, heard, Typed
  <2>4. /\ wire' \in Seq(Frame) /\ ready' \in 0 .. Len(wire')
        /\ sweeps' \in SUBSET [party : Party, tabs : SUBSET Tab]
    <3>1. CASE Return
      BY <2>2, <3>1, Readies DEF Return, Typed
    <3>2. CASE \E who : Fetch(Reply.party, who)
      BY <2>2, <3>2, Fetched
    <3>. QED
      BY <1>13, <3>1, <3>2 DEF Left, Kicked, GoneLeft
  <2>. QED
    BY <1>13, <2>1, <2>3, <2>4 DEF Left, Kicked, GoneLeft, Typed, storeVars, asks
<1>14. ASSUME NEW t \in Tab, AskSync(t) \/ Connect(t) PROVE IInv'
  <2>1. Sound'
    BY <1>14, UntouchedSound DEF AskSync, Connect, storeVars
  <2>2. playerParty[Owner[t]] \in MaybeParty
    BY PartySessionAssumption DEF Sound
  <2>3. /\ [at |-> "syncKey", tab |-> t, party |-> playerParty[Owner[t]]] \in Frame
        /\ [at |-> "restore", tab |-> t, party |-> playerParty[Owner[t]]] \in Frame
    BY <2>2 DEF Frame
  <2>4. wire' \in Seq(Frame) /\ sweeps' = sweeps /\ ready' \in 0 .. Len(wire')
    <3>1. sweeps' = sweeps /\ ready' = ready
      BY <1>14, Asked DEF AskSync, Connect, Idle
    <3>. QED
      BY <1>14, <2>3, <3>1, Queue, ReadyAppend DEF AskSync, Connect, Issue, Typed
  <2>. QED
    BY <1>14, <2>1, <2>4, Asked DEF AskSync, Connect, Typed, storeVars, heard, asks
<1>15. CASE SyncParty
  <2>1. Sound'
    BY <1>15, UntouchedSound DEF SyncParty, storeVars
  <2>2. Reply \in Frame /\ Reply.party \in MaybeParty
    BY <1>15, Queue, FrameCarries DEF SyncParty, Resumes, Typed
  <2>3. [Reply EXCEPT !.at = "syncParty", !.party = IF Exists(Reply.party) THEN Reply.party ELSE NoParty] \in Frame
    <3>1. (IF Exists(Reply.party) THEN Reply.party ELSE NoParty) \in MaybeParty
      BY <2>2 DEF MaybeParty
    <3>. QED
      BY <1>15, <2>2, <3>1, FrameCarries DEF SyncParty, Resumes
  <2>4. wire' \in Seq(Frame) /\ sweeps' = sweeps /\ ready' \in 0 .. Len(wire')
    <3>1. Resumes("syncKey") /\ Continue
      BY <1>15 DEF SyncParty, Then
    <3>2. wire' = Append(Tail(wire), [Reply EXCEPT !.at = "syncParty", !.party = IF Exists(Reply.party) THEN Reply.party ELSE NoParty])
      BY <1>15 DEF SyncParty, Then
    <3>. QED
      BY <2>3, <3>1, <3>2, Queue, Readies DEF Resumes, Typed
  <2>. QED
    BY <1>15, <2>1, <2>4 DEF SyncParty, Typed, storeVars, heard, asks
<1>16. ASSUME NEW t \in Tab, Disconnect(t) PROVE IInv'
  <2>1. Sound' /\ wire' \in Seq(Frame) /\ Len(wire) <= Len(wire')
    <3>1. CASE LeaveOnDrop(t, TabsOf(Owner[t]) \ {t}, wire)
      BY <1>16, <3>1, DropKeeps DEF Disconnect, Typed
    <3>2. CASE ~LeaveOnDrop(t, TabsOf(Owner[t]) \ {t}, wire)
      <4>1. /\ TabsOf(Owner[t]) \ {t} = {}
            /\ wire' = Append(wire, [at |-> "dropped", tab |-> t, others |-> TabsOf(Owner[t]) \ {t}])
            /\ UNCHANGED <<parties, playerParty, minted>>
        BY <1>16, <3>2 DEF Disconnect, Issue
      <4>2. [at |-> "dropped", tab |-> t, others |-> TabsOf(Owner[t]) \ {t}] \in Frame
        BY <4>1 DEF Frame
      <4>. QED
        BY <4>1, <4>2, UntouchedSound, Queue DEF Typed
    <3>. QED
      BY <3>1, <3>2
  <2>2. sweeps' = sweeps /\ ready' = ready
    BY <1>16 DEF Disconnect, Idle
  <2>3. ready' \in 0 .. Len(wire')
    BY <2>1, <2>2 DEF Typed
  <2>4. sock' \in [Tab -> {"new", "on", "gone"}] /\ rooms' \in [Tab -> SUBSET Party]
    BY <1>16 DEF Disconnect, Typed
  <2>5. budget' \in 0 .. MaxRequests
    BY <1>16, Spent DEF Disconnect, Typed
  <2>. QED
    BY <1>16, <2>1, <2>2, <2>3, <2>4, <2>5 DEF Disconnect, Typed
<1>17. CASE Dropped
  <2>1. Reply.tab \in Tab /\ Tail(wire) \in Seq(Frame) /\ Len(Tail(wire)) = Len(wire) - 1
    <3>1. wire # <<>> /\ Reply.at = "dropped" /\ wire \in Seq(Frame)
      BY <1>17 DEF Dropped, Resumes, Typed
    <3>2. Reply.tab \in Tab /\ Tail(wire) \in Seq(Frame)
      BY <3>1, Queue, FrameCarries
    <3>3. Len(Tail(wire)) = Len(wire) - 1
      BY <3>1
    <3>. QED
      BY <3>2, <3>3
  <2>2. Sound' /\ wire' \in Seq(Frame) /\ Len(Tail(wire)) <= Len(wire')
    BY <1>17, <2>1, DropKeeps DEF Dropped, Typed
  <2>3. sweeps' = sweeps /\ ready' \in 0 .. Len(wire')
    <3>1. Passed \in 0 .. Len(wire) - 1
      BY <1>17, <2>1 DEF Dropped, Resumes, Passed, Typed
    <3>. QED
      BY <1>17, <2>1, <2>2, <3>1 DEF Dropped, Continue
  <2>. QED
    BY <1>17, <2>2, <2>3 DEF Dropped, Typed, heard, asks
<1>18. ASSUME NEW u \in User, NEW p \in Party, LapseInvite(u, p) PROVE IInv'
  <2>1. Sound'
    BY <1>18, UntouchedSound DEF LapseInvite
  <2>. QED
    BY <1>18, <2>1, Spent DEF LapseInvite, heard, Typed
<1>19. ASSUME NEW u \in User, LapseKey(u) PROVE IInv'
  <2>1. Sound'
    BY <1>19 DEF LapseKey, Sound, MaybeParty, Exists, KeyMeansMember
  <2>. QED
    BY <1>19, <2>1, Spent DEF LapseKey, heard, Typed
<1>20. ASSUME NEW p \in Party, LapseParty(p) PROVE IInv'
  <2>1. Sound'
    <3>1. \A q \in Party : parties'[q] = IF q = p THEN NoRecord ELSE parties[q]
      BY <1>20 DEF LapseParty, Sound
    <3>2. Cardinality(NoRecord.members) <= MaxSize /\ NoRecord.leader \subseteq NoRecord.members
      <4>1. NoRecord.members = {} /\ NoRecord.leader = {}
        BY DEF NoRecord
      <4>. QED
        BY <4>1, FS_EmptySet, PartySessionAssumption
    <3>3. \A q \in Party : Cardinality(parties'[q].members) <= MaxSize /\ parties'[q].leader \subseteq parties'[q].members
      BY <3>1, <3>2 DEF Sound
    <3>4. parties' \in [Party -> Record \cup {NoRecord}]
      BY <1>20 DEF LapseParty, Sound
    <3>5. (\A q \in Party : Exists(q) => q \in minted)'
      BY <1>20, <3>1 DEF LapseParty, Sound, Exists
    <3>6. KeyMeansMember'
      BY <1>20, <3>1 DEF LapseParty, Sound, KeyMeansMember, MaybeParty
    <3>. QED
      BY <1>20, <3>3, <3>4, <3>5, <3>6 DEF LapseParty, Sound
  <2>. QED
    BY <1>20, <2>1, Spent DEF LapseParty, heard, Typed
<1>21. ASSUME NEW s \in sweeps, Sweep(s) PROVE IInv'
  <2>1. Sound'
    BY <1>21, UntouchedSound DEF Sweep, storeVars
  <2>2. s.tabs \in SUBSET Tab /\ active' \in [Tab -> MaybeParty] /\ rooms' \in [Tab -> SUBSET Party]
    BY <1>21 DEF Sweep, Typed, MaybeParty
  <2>3. ready' \in 0 .. Len(wire')
    <3>1. Len(wire) \in Nat
      BY DEF Typed
    <3>. QED
      BY <1>21, <3>1 DEF Sweep, Typed
  <2>. QED
    BY <1>21, <2>1, <2>2, <2>3 DEF Sweep, Typed, storeVars, asks
<1>. QED
  BY <1>1, <1>2, <1>3, <1>4, <1>5, <1>6, <1>7, <1>8, <1>9, <1>10, <1>11, <1>12, <1>13,
     <1>14, <1>15, <1>16, <1>17, <1>18, <1>19, <1>20, <1>21 DEF Next

-----------------------------------------------------------------------------
(* Theorems *)

\* The state stays in its type; no party is larger than MAX_PARTY_SIZE, and
\* every party lists its leader (party.ts:45-91, 178-211, 229-265).
THEOREM TypeCorrect == Spec => []TypeOK
<1>1. IInv => TypeOK
  BY DEF IInv, Sound, Typed, TypeOK
<1>. QED
  BY <1>1, InitKeeps, NextKeeps, PTL DEF Spec

\* Whatever happens to a party, a user whose key names one is listed in it:
\* nobody is kept out of every party by one that is gone (party.ts:66-69).
THEOREM KeysNameMembers == Spec => []KeyMeansMember
<1>1. IInv => KeyMeansMember
  BY DEF IInv, Sound
<1>. QED
  BY <1>1, InitKeeps, NextKeeps, PTL DEF Spec

-----------------------------------------------------------------------------
(* Every tab hears of its party.                                           *)
(*                                                                         *)
(* A tab that is not in the room of its user's party will be told of it by *)
(* a frame in the queue.  What could still take it out was issued before   *)
(* the key was written, so the frame of that writing is behind it; and     *)
(* the answers that may go before a sweep were issued before the sweep's   *)
(* party could be joined again.                                            *)

Answers == {"created", "joined", "accepted", "syncKey", "syncParty"}

\* A frame of a request.
Own(f) == f.at \notin {"restore", "dropped", "goneLeft"}

Queued(w) == {w[i] : i \in DOMAIN w}

\* Nobody has two requests under way, unless they were in a hurry.
Once(w, inHurry) ==
  \A i, j \in DOMAIN w :
    Own(w[i]) /\ Own(w[j]) /\ Owner[w[i].tab] = Owner[w[j].tab] /\ Owner[w[i].tab] \notin inHurry => i = j

\* What a frame says of its user's key still is so, unless the key is gone or
\* the user was in a hurry; what it says was disbanded does not come back.
Agrees(f) ==
  /\ f.at \in Answers => Owner[f.tab] \in hurried \/ playerParty[Owner[f.tab]] \in {f.party, NoParty}
  /\ f.at = "left" => Owner[f.tab] \in hurried \/ playerParty[Owner[f.tab]] = NoParty
  /\ f.at \in {"left", "goneLeft"} => (f.disbanded => f.party \in minted /\ ~Exists(f.party))
  /\ f.at \in Answers \cup {"restore"} => f.party \in minted \cup {NoParty}
  /\ f.at = "kicked" => f.party \in minted

\* The frame tells the tab t that its party is k.
Tells(f, t, k) ==
  \/ f.at \in Answers /\ f.party = k /\ Owner[f.tab] = Owner[t]
  \/ f.at = "restore" /\ f.party = k /\ f.tab = t

\* The frame is about the tab t and another party.
Strays(f, t, k) == f.at = "restore" /\ f.tab = t /\ f.party \notin {k, NoParty}

\* The frame takes the user u out of k.
Kicks(f, u, k) == f.at = "kicked" /\ f.target = u /\ f.party = k

\* The frame comes of u's having written k into their key.
Wrote(f, steps, u, k) == f.at \in steps /\ f.party = k /\ Owner[f.tab] = u

\* The tab is in the room of k and knows it, or did before a sweep.
In(t, k) == k \in rooms[t] /\ (active[t] = k \/ t \in overtaken)

\* A sweep will take t out of k.
Swept(t, k) == \E s \in sweeps : s.party = k /\ t \in s.tabs

Told(w, t, k) == \E i \in 1 .. Len(w) : Tells(w[i], t, k)

\* Whatever was issued before the key was written is followed by the frame of
\* that writing.
InOrder(w, t, k) ==
  \A j \in 1 .. Len(w) :
    /\ Strays(w[j], t, k) => \E i \in j + 1 .. Len(w) : Wrote(w[i], {"created", "joined"}, Owner[t], k)
    /\ Kicks(w[j], Owner[t], k) => \E i \in j + 1 .. Len(w) : Wrote(w[i], {"joined"}, Owner[t], k)

\* With the first n answers before the sweeps, t is told of k after them.
Later(w, n, t, k) ==
  \E i \in 1 .. Len(w) :
    \/ Wrote(w[i], {"joined"}, Owner[t], k)
    \/ Wrote(w[i], {"accepted"}, Owner[t], k) /\ i > n

Agreed == \A f \in Queued(wire) : Agrees(f)

ActiveMinted == \A t \in Tab : active[t] \in minted \cup {NoParty}

HearsOf(t, k) ==
  /\ sock[t] = "on" => In(t, k) \/ Told(wire, t, k)
  /\ InOrder(wire, t, k)
  /\ Swept(t, k) => Later(wire, ready, t, k)

\* The user of the tab has the party k, and was never in a hurry.
Has(t, k) == playerParty[Owner[t]] = k /\ Owner[t] \notin hurried

Hears == \A t \in Tab, k \in Party : Has(t, k) => HearsOf(t, k)

HInv == Once(wire, hurried) /\ Agreed /\ ActiveMinted /\ Hears

-----------------------------------------------------------------------------
(* The queue *)

\* What is in a queue after its head was taken, or a frame was put in.
LEMMA QueuedMoves ==
  ASSUME NEW w \in Seq(Frame), NEW f \in Frame
  PROVE  /\ Queued(w) \subseteq Frame
         /\ Queued(Append(w, f)) = Queued(w) \cup {f}
         /\ w # <<>> => Queued(Tail(w)) \subseteq Queued(w) /\ Head(w) \in Queued(w)
<1>1. Queued(w) \subseteq Frame
  BY DEF Queued
<1>2. Queued(Append(w, f)) = Queued(w) \cup {f}
  <2>1. \A i \in DOMAIN Append(w, f) : Append(w, f)[i] = IF i = Len(w) + 1 THEN f ELSE w[i]
    OBVIOUS
  <2>2. DOMAIN Append(w, f) = DOMAIN w \cup {Len(w) + 1} /\ Len(w) + 1 \notin DOMAIN w
    OBVIOUS
  <2>. QED
    BY <2>1, <2>2 DEF Queued
<1>3. ASSUME w # <<>>
      PROVE  Queued(Tail(w)) \subseteq Queued(w) /\ Head(w) \in Queued(w)
  <2>1. \A i \in DOMAIN Tail(w) : i + 1 \in DOMAIN w /\ Tail(w)[i] = w[i + 1]
    BY <1>3
  <2>2. 1 \in DOMAIN w /\ Head(w) = w[1]
    BY <1>3
  <2>. QED
    BY <2>1, <2>2 DEF Queued
<1>. QED
  BY <1>1, <1>2, <1>3

\* A request more, of somebody who has none or is in a hurry.
LEMMA OnceAppend ==
  ASSUME NEW w \in Seq(Frame), NEW f \in Frame, NEW H, Once(w, H),
         Own(f) => Owner[f.tab] \in H \/ \A g \in Queued(w) : Own(g) => Owner[g.tab] # Owner[f.tab]
  PROVE  Once(Append(w, f), H)
<1>1. \A i \in DOMAIN Append(w, f) : \/ i = Len(w) + 1 /\ Append(w, f)[i] = f
                                     \/ i \in DOMAIN w /\ Append(w, f)[i] = w[i]
  OBVIOUS
<1>2. \A i \in DOMAIN w : w[i] \in Queued(w)
  BY DEF Queued
<1>. QED
  BY <1>1, <1>2 DEF Once

\* More users in a hurry are fewer to answer for.
LEMMA OnceHurry ==
  ASSUME NEW w, NEW G, NEW H, G \subseteq H, Once(w, G)
  PROVE  Once(w, H)
BY DEF Once

\* The head is taken: nobody else's request was its user's.
LEMMA OnceTail ==
  ASSUME NEW w \in Seq(Frame), w # <<>>, NEW H, Once(w, H)
  PROVE  /\ Once(Tail(w), H)
         /\ Own(Head(w)) =>
              Owner[Head(w).tab] \in H \/ \A g \in Queued(Tail(w)) : Own(g) => Owner[g.tab] # Owner[Head(w).tab]
<1>1. \A i \in DOMAIN Tail(w) : i \in Nat /\ i + 1 \in DOMAIN w /\ Tail(w)[i] = w[i + 1] /\ i + 1 # 1
  OBVIOUS
<1>2. 1 \in DOMAIN w /\ Head(w) = w[1]
  OBVIOUS
<1>3. Once(Tail(w), H)
  <2>. SUFFICES ASSUME NEW i \in DOMAIN Tail(w), NEW j \in DOMAIN Tail(w), Own(Tail(w)[i]), Own(Tail(w)[j]),
                       Owner[Tail(w)[i].tab] = Owner[Tail(w)[j].tab], Owner[Tail(w)[i].tab] \notin H
                PROVE  i = j
    BY DEF Once
  <2>1. i + 1 = j + 1
    BY <1>1 DEF Once
  <2>. QED
    BY <1>1, <2>1
<1>4. ASSUME Own(Head(w)), Owner[Head(w).tab] \notin H, NEW g \in Queued(Tail(w)), Own(g)
      PROVE  Owner[g.tab] # Owner[Head(w).tab]
  <2>1. PICK i \in DOMAIN Tail(w) : g = Tail(w)[i]
    BY <1>4 DEF Queued
  <2>. QED
    BY <1>1, <1>2, <1>4, <2>1 DEF Once
<1>. QED
  BY <1>3, <1>4

\* The places of a queue with a frame more.
LEMMA Places ==
  ASSUME NEW w \in Seq(Frame), NEW f \in Frame
  PROVE  /\ Len(w) \in Nat /\ Len(Append(w, f)) = Len(w) + 1 /\ Append(w, f)[Len(w) + 1] = f
         /\ \A i \in 1 .. Len(w) : Append(w, f)[i] = w[i]
OBVIOUS

\* The places of a queue without its head.
LEMMA PlacesTail ==
  ASSUME NEW w \in Seq(Frame), w # <<>>
  PROVE  /\ Len(w) \in Nat \ {0} /\ Len(Tail(w)) = Len(w) - 1 /\ Head(w) = w[1]
         /\ \A i \in 1 .. Len(w) - 1 : Tail(w)[i] = w[i + 1]
OBVIOUS

\* What a frame more leaves of what was told.
LEMMA AppendKeeps ==
  ASSUME NEW w \in Seq(Frame), NEW f \in Frame, NEW t, NEW k
  PROVE  /\ Told(w, t, k) \/ Tells(f, t, k) => Told(Append(w, f), t, k)
         /\ InOrder(w, t, k) /\ ~Strays(f, t, k) /\ ~Kicks(f, Owner[t], k) => InOrder(Append(w, f), t, k)
         /\ Wrote(f, {"joined"}, Owner[t], k) => InOrder(Append(w, f), t, k)
         /\ Wrote(f, {"created"}, Owner[t], k) /\ (\A g \in Queued(w) : ~Kicks(g, Owner[t], k)) => InOrder(Append(w, f), t, k)
         /\ \A n \in Nat :
              /\ Later(w, n, t, k) => Later(Append(w, f), n, t, k)
              /\ Wrote(f, {"joined"}, Owner[t], k) => Later(Append(w, f), n, t, k)
              /\ Wrote(f, {"accepted"}, Owner[t], k) /\ n <= Len(w) => Later(Append(w, f), n, t, k)
<1>. DEFINE v == Append(w, f)
<1>1. Len(w) \in Nat /\ Len(v) = Len(w) + 1 /\ v[Len(w) + 1] = f /\ \A i \in 1 .. Len(w) : v[i] = w[i]
  BY Places
<1>. HIDE DEF v
<1>2. Told(w, t, k) \/ Tells(f, t, k) => Told(v, t, k)
  BY <1>1 DEF Told
<1>3. ASSUME InOrder(w, t, k), ~Strays(f, t, k), ~Kicks(f, Owner[t], k)
      PROVE  InOrder(v, t, k)
  <2>. SUFFICES ASSUME NEW j \in 1 .. Len(v)
                PROVE  /\ Strays(v[j], t, k) => \E i \in j + 1 .. Len(v) : Wrote(v[i], {"created", "joined"}, Owner[t], k)
                       /\ Kicks(v[j], Owner[t], k) => \E i \in j + 1 .. Len(v) : Wrote(v[i], {"joined"}, Owner[t], k)
    BY DEF InOrder
  <2>1. CASE j = Len(w) + 1
    BY <1>1, <1>3, <2>1
  <2>2. CASE j # Len(w) + 1
    <3>1. j \in 1 .. Len(w) /\ v[j] = w[j]
      BY <1>1, <2>2
    <3>2. \A i \in j + 1 .. Len(w) : i \in j + 1 .. Len(v) /\ v[i] = w[i]
      BY <1>1, <3>1
    <3>3. Strays(w[j], t, k) => \E i \in j + 1 .. Len(w) : Wrote(w[i], {"created", "joined"}, Owner[t], k)
      BY <1>3, <3>1 DEF InOrder
    <3>4. Kicks(w[j], Owner[t], k) => \E i \in j + 1 .. Len(w) : Wrote(w[i], {"joined"}, Owner[t], k)
      BY <1>3, <3>1 DEF InOrder
    <3>. QED
      BY <3>1, <3>2, <3>3, <3>4
  <2>. QED
    BY <2>1, <2>2
<1>4. ASSUME Wrote(f, {"joined", "created"}, Owner[t], k),
             Wrote(f, {"joined"}, Owner[t], k) \/ \A g \in Queued(w) : ~Kicks(g, Owner[t], k)
      PROVE  InOrder(v, t, k)
  <2>. SUFFICES ASSUME NEW j \in 1 .. Len(v)
                PROVE  /\ Strays(v[j], t, k) => \E i \in j + 1 .. Len(v) : Wrote(v[i], {"created", "joined"}, Owner[t], k)
                       /\ Kicks(v[j], Owner[t], k) => \E i \in j + 1 .. Len(v) : Wrote(v[i], {"joined"}, Owner[t], k)
    BY DEF InOrder
  <2>1. CASE j = Len(w) + 1
    BY <1>1, <1>4, <2>1 DEF Strays, Kicks, Wrote
  <2>2. CASE j # Len(w) + 1
    <3>1. j \in 1 .. Len(w) /\ v[j] = w[j] /\ Len(w) + 1 \in j + 1 .. Len(v) /\ w[j] \in Queued(w)
      BY <1>1, <2>2 DEF Queued
    <3>. QED
      BY <1>1, <1>4, <3>1 DEF Wrote
  <2>. QED
    BY <2>1, <2>2
<1>5. ASSUME NEW n \in Nat
      PROVE  /\ Later(w, n, t, k) => Later(v, n, t, k)
             /\ Wrote(f, {"joined"}, Owner[t], k) => Later(v, n, t, k)
             /\ Wrote(f, {"accepted"}, Owner[t], k) /\ n <= Len(w) => Later(v, n, t, k)
  <2>1. Later(w, n, t, k) => Later(v, n, t, k)
    BY <1>1 DEF Later
  <2>2. Wrote(f, {"joined"}, Owner[t], k) => Later(v, n, t, k)
    BY <1>1 DEF Later
  <2>3. Wrote(f, {"accepted"}, Owner[t], k) /\ n <= Len(w) => Later(v, n, t, k)
    BY <1>1 DEF Later
  <2>. QED
    BY <2>1, <2>2, <2>3
<1>6. /\ Wrote(f, {"joined"}, Owner[t], k) => Wrote(f, {"joined", "created"}, Owner[t], k)
      /\ Wrote(f, {"created"}, Owner[t], k) => Wrote(f, {"joined", "created"}, Owner[t], k)
  BY DEF Wrote
<1>. QED
  BY <1>2, <1>3, <1>4, <1>5, <1>6 DEF v

\* What is left of it without the head.
LEMMA TailKeeps ==
  ASSUME NEW w \in Seq(Frame), w # <<>>, NEW t, NEW k
  PROVE  /\ Told(w, t, k) /\ ~Tells(Head(w), t, k) => Told(Tail(w), t, k)
         /\ InOrder(w, t, k) => InOrder(Tail(w), t, k)
         /\ InOrder(w, t, k) /\ Strays(Head(w), t, k) => Told(Tail(w), t, k)
         /\ \A n \in Nat :
              /\ InOrder(w, t, k) /\ Kicks(Head(w), Owner[t], k) => Later(Tail(w), n, t, k)
              /\ Later(w, n, t, k) /\ n > 0 /\ ~Wrote(Head(w), {"joined"}, Owner[t], k) => Later(Tail(w), n - 1, t, k)
<1>. DEFINE v == Tail(w)
<1>1. /\ Len(w) \in Nat \ {0} /\ Len(v) = Len(w) - 1 /\ Head(w) = w[1]
      /\ \A i \in 1 .. Len(w) - 1 : v[i] = w[i + 1]
  BY PlacesTail
<1>. HIDE DEF v
<1>2. \A i \in 2 .. Len(w) : i - 1 \in 1 .. Len(v) /\ v[i - 1] = w[i]
  BY <1>1
<1>3. Told(w, t, k) /\ ~Tells(Head(w), t, k) => Told(v, t, k)
  BY <1>1, <1>2 DEF Told
<1>4. ASSUME InOrder(w, t, k)
      PROVE  InOrder(v, t, k)
  <2>. SUFFICES ASSUME NEW j \in 1 .. Len(v)
                PROVE  /\ Strays(v[j], t, k) => \E i \in j + 1 .. Len(v) : Wrote(v[i], {"created", "joined"}, Owner[t], k)
                       /\ Kicks(v[j], Owner[t], k) => \E i \in j + 1 .. Len(v) : Wrote(v[i], {"joined"}, Owner[t], k)
    BY DEF InOrder
  <2>1. j + 1 \in 1 .. Len(w) /\ v[j] = w[j + 1]
    BY <1>1
  <2>2. \A i \in (j + 1) + 1 .. Len(w) : i - 1 \in j + 1 .. Len(v) /\ v[i - 1] = w[i]
    BY <1>1, <1>2
  <2>3. Strays(w[j + 1], t, k) => \E i \in (j + 1) + 1 .. Len(w) : Wrote(w[i], {"created", "joined"}, Owner[t], k)
    BY <1>4, <2>1 DEF InOrder
  <2>4. Kicks(w[j + 1], Owner[t], k) => \E i \in (j + 1) + 1 .. Len(w) : Wrote(w[i], {"joined"}, Owner[t], k)
    BY <1>4, <2>1 DEF InOrder
  <2>. QED
    BY <2>1, <2>2, <2>3, <2>4
<1>5. ASSUME InOrder(w, t, k), Strays(Head(w), t, k)
      PROVE  Told(v, t, k)
  <2>1. PICK i \in 1 + 1 .. Len(w) : Wrote(w[i], {"created", "joined"}, Owner[t], k)
    BY <1>1, <1>5 DEF InOrder
  <2>2. i - 1 \in 1 .. Len(v) /\ Tells(v[i - 1], t, k)
    BY <1>2, <2>1 DEF Wrote, Tells, Answers
  <2>. QED
    BY <2>2 DEF Told
<1>6. ASSUME NEW n \in Nat, InOrder(w, t, k), Kicks(Head(w), Owner[t], k)
      PROVE  Later(v, n, t, k)
  <2>1. PICK i \in 1 + 1 .. Len(w) : Wrote(w[i], {"joined"}, Owner[t], k)
    BY <1>1, <1>6 DEF InOrder
  <2>. QED
    BY <1>2, <2>1 DEF Later
<1>7. ASSUME NEW n \in Nat, Later(w, n, t, k), n > 0, ~Wrote(Head(w), {"joined"}, Owner[t], k)
      PROVE  Later(v, n - 1, t, k)
  <2>1. PICK i \in 1 .. Len(w) : \/ Wrote(w[i], {"joined"}, Owner[t], k)
                                 \/ Wrote(w[i], {"accepted"}, Owner[t], k) /\ i > n
    BY <1>7 DEF Later
  <2>2. i # 1
    BY <1>1, <1>7, <2>1
  <2>3. i - 1 \in 1 .. Len(v) /\ v[i - 1] = w[i] /\ (i > n => i - 1 > n - 1)
    BY <1>2, <2>1, <2>2
  <2>. QED
    BY <2>1, <2>3 DEF Later
<1>. QED
  BY <1>3, <1>4, <1>5, <1>6, <1>7 DEF v

-----------------------------------------------------------------------------
(* What a step does to the keys *)

\* No key is written, some may go; no party is made; nobody stops having been
\* in a hurry.
Falls ==
  /\ \A u \in User : playerParty'[u] \in {playerParty[u], NoParty}
  /\ minted' = minted
  /\ \A p \in Party : Exists(p)' => Exists(p)
  /\ hurried \subseteq hurried'

LEMMA StillFalls == UNCHANGED <<parties, playerParty, minted>> /\ hurried \subseteq hurried' => Falls
BY DEF Falls, Exists

\* Who leaves has no key, and nobody has that of a party that disbands.
LEMMA LeaveFalls ==
  ASSUME Sound, NEW p \in Party, NEW u \in User, LeaveScript(p, u), minted' = minted,
         hurried \subseteq hurried'
  PROVE  Falls /\ playerParty'[u] = NoParty /\ (Disbands(p, u) => ~Exists(p)')
<1>1. parties' = [parties EXCEPT ![p] = Without(p, u)]
  BY DEF LeaveScript
<1>2. parties'[p] = Without(p, u) /\ \A q \in Party : q # p => parties'[q] = parties[q]
  BY <1>1 DEF Sound
<1>3. Disbands(p, u) => ~Exists(p)'
  BY <1>2 DEF Without, Exists
<1>4. ~Disbands(p, u) => Exists(p)
  BY DEF Disbands
<1>5. \A q \in Party : Exists(q)' => Exists(q)
  BY <1>2, <1>3, <1>4 DEF Exists
<1>6. \A v \in User : playerParty'[v] \in {playerParty[v], NoParty}
  BY DEF LeaveScript
<1>7. playerParty'[u] = NoParty
  BY DEF LeaveScript
<1>. QED
  BY <1>3, <1>5, <1>6, <1>7 DEF Falls

\* Who is kicked has no key.
LEMMA KickFalls ==
  ASSUME Sound, NEW p \in Party, NEW u \in User, NEW target \in User, MayKick(p, u, target), KickScript(p, target),
         minted' = minted, hurried \subseteq hurried'
  PROVE  Falls /\ playerParty'[target] = NoParty
<1>1. Exists(p)
  BY DEF MayKick, Exists, NoRecord
<1>2. \A q \in Party : q # p => parties'[q] = parties[q]
  BY DEF KickScript, Sound
<1>3. \A q \in Party : Exists(q)' => Exists(q)
  BY <1>1, <1>2 DEF Exists
<1>4. \A v \in User : playerParty'[v] = IF v = target THEN NoParty ELSE playerParty[v]
  BY DEF KickScript, Sound
<1>. QED
  BY <1>3, <1>4 DEF Falls

\* Frames agree with keys that fall.
LEMMA AgreesFalls ==
  ASSUME Falls, NEW f \in Frame, Agrees(f)
  PROVE  Agrees(f)'
<1>1. f.at \in Answers \cup {"left"} => Owner[f.tab] \in User
  BY FrameCarries, PartySessionAssumption DEF Answers
<1>2. f.at \in {"left", "goneLeft"} => f.party \in Party
  BY FrameCarries
<1>3. f.at \in Answers => Owner[f.tab] \in hurried' \/ playerParty'[Owner[f.tab]] \in {f.party, NoParty}
  BY <1>1 DEF Falls, Agrees
<1>4. f.at = "left" => Owner[f.tab] \in hurried' \/ playerParty'[Owner[f.tab]] = NoParty
  BY <1>1 DEF Falls, Agrees
<1>5. f.at \in {"left", "goneLeft"} => (f.disbanded => f.party \in minted' /\ ~Exists(f.party)')
  BY <1>2 DEF Falls, Agrees
<1>6. f.at \in Answers \cup {"restore"} => f.party \in minted' \cup {NoParty}
  BY DEF Falls, Agrees
<1>7. f.at = "kicked" => f.party \in minted'
  BY DEF Falls, Agrees
<1>. QED
  BY <1>3, <1>4, <1>5, <1>6, <1>7 DEF Agrees

\* A key that is there names a party that is there.
LEMMA KeyExists ==
  ASSUME Sound, NEW u \in User, playerParty[u] # NoParty
  PROVE  playerParty[u] \in Party /\ Exists(playerParty[u]) /\ playerParty[u] \in minted
BY RecordsList DEF Sound, KeyMeansMember, MaybeParty, Exists, NoRecord

-----------------------------------------------------------------------------
(* What a step does to the queue *)

\* Whoever has a party after the step had it before.
LEMMA Had ==
  ASSUME Falls, NEW t \in Tab, NEW k \in Party, Has(t, k)'
  PROVE  Has(t, k)
<1>1. Owner[t] \in User
  BY PartySessionAssumption
<1>2. playerParty'[Owner[t]] = k /\ Owner[t] \notin hurried' /\ k # NoParty
  BY PartySessionAssumption DEF Has
<1>3. playerParty[Owner[t]] = k
  BY <1>1, <1>2 DEF Falls
<1>. QED
  BY <1>2, <1>3 DEF Falls, Has

\* The frames of the queue after the step agree with the store.
LEMMA AgreedAfter ==
  ASSUME IInv, Agreed, Falls
  PROVE  /\ Queued(wire') \subseteq Queued(wire) => Agreed'
         /\ \A f \in Frame : Queued(wire') \subseteq Queued(wire) \cup {f} /\ Agrees(f)' => Agreed'
<1>1. \A g \in Queued(wire) : Agrees(g)'
  <2>1. Queued(wire) \subseteq Frame
    BY DEF IInv, Typed, Queued
  <2>. QED
    BY <2>1, AgreesFalls DEF Agreed
<1>2. ASSUME Queued(wire') \subseteq Queued(wire)
      PROVE  Agreed'
  BY <1>1, <1>2 DEF Agreed
<1>3. ASSUME NEW f \in Frame, Queued(wire') \subseteq Queued(wire) \cup {f}, Agrees(f)'
      PROVE  Agreed'
  <2>1. \A g \in Queued(wire') : Agrees(g)'
    BY <1>1, <1>3
  <2>. QED
    BY <2>1 DEF Agreed
<1>. QED
  BY <1>2, <1>3

\* No frame is taken, none comes, and no tab opens.
LEMMA Staying ==
  ASSUME IInv, HInv, Falls, UNCHANGED <<active, overtaken, wire, sweeps, ready>>,
         \A t \in Tab : sock'[t] = "on" => sock[t] = "on" /\ rooms'[t] = rooms[t]
  PROVE  HInv'
<1>1. Once(wire', hurried') /\ ActiveMinted'
  BY OnceHurry DEF HInv, ActiveMinted, Falls
<1>2. Agreed'
  BY AgreedAfter DEF HInv, Queued
<1>3. Hears'
  <2>. SUFFICES ASSUME NEW t \in Tab, NEW k \in Party, Has(t, k)'
                PROVE  HearsOf(t, k)'
    BY DEF Hears
  <2>1. HearsOf(t, k)
    BY Had DEF HInv, Hears
  <2>2. sock'[t] = "on" => In(t, k)' \/ Told(wire', t, k)
    BY <2>1 DEF HearsOf, In
  <2>3. Swept(t, k)' => Later(wire', ready', t, k)
    BY <2>1 DEF HearsOf, Swept
  <2>. QED
    BY <2>1, <2>2, <2>3 DEF HearsOf
<1>. QED
  BY <1>1, <1>2, <1>3 DEF HInv

\* A frame comes.
LEMMA Adding ==
  ASSUME IInv, HInv, Falls, UNCHANGED <<active, overtaken>>, sweeps' = {}, NEW f \in Frame,
         wire' = Append(wire, f), Agrees(f)',
         Own(f) => Owner[f.tab] \in hurried' \/ \A g \in Queued(wire) : Own(g) => Owner[g.tab] # Owner[f.tab],
         \A t \in Tab, k \in Party : Has(t, k)' =>
           /\ ~Strays(f, t, k) /\ ~Kicks(f, Owner[t], k)
           /\ sock'[t] = "on" => Tells(f, t, k) \/ (sock[t] = "on" /\ rooms'[t] = rooms[t])
  PROVE  HInv'
<1>0. wire \in Seq(Frame)
  BY DEF IInv, Typed
<1>1. Once(wire', hurried')
  <2>1. Once(wire, hurried')
    BY OnceHurry DEF HInv, Falls
  <2>. QED
    BY <1>0, <2>1, OnceAppend
<1>2. ActiveMinted'
  BY DEF HInv, ActiveMinted, Falls
<1>3. Agreed'
  <2>1. Queued(wire') \subseteq Queued(wire) \cup {f}
    BY <1>0, QueuedMoves
  <2>. QED
    BY <2>1, AgreedAfter DEF HInv
<1>4. Hears'
  <2>. SUFFICES ASSUME NEW t \in Tab, NEW k \in Party, Has(t, k)'
                PROVE  HearsOf(t, k)'
    BY DEF Hears
  <2>1. HearsOf(t, k)
    BY Had DEF HInv, Hears
  <2>2. InOrder(wire', t, k)
    BY <1>0, <2>1, AppendKeeps DEF HearsOf
  <2>3. sock'[t] = "on" => In(t, k)' \/ Told(wire', t, k)
    <3>1. CASE Tells(f, t, k)
      BY <1>0, <3>1, AppendKeeps
    <3>2. CASE sock[t] = "on" /\ rooms'[t] = rooms[t]
      <4>1. In(t, k) \/ Told(wire, t, k)
        BY <2>1, <3>2 DEF HearsOf
      <4>2. In(t, k) => In(t, k)'
        BY <3>2 DEF In
      <4>. QED
        BY <1>0, <4>1, <4>2, AppendKeeps
    <3>. QED
      BY <3>1, <3>2
  <2>4. ~Swept(t, k)'
    BY DEF Swept
  <2>. QED
    BY <2>2, <2>3, <2>4 DEF HearsOf
<1>. QED
  BY <1>1, <1>2, <1>3, <1>4 DEF HInv

\* The head is carried out.
LEMMA Answering ==
  ASSUME IInv, HInv, Falls, sock' = sock, NEW step, Resumes(step), step # "joined", wire' = Tail(wire), ActiveMinted',
         ready' \in Nat,
         \A t \in Tab, k \in Party : Has(t, k)' =>
           /\ Swept(t, k)' => (Swept(t, k) /\ ready' = ready - 1) \/ Kicks(Reply, Owner[t], k)
           /\ sock[t] = "on" =>
                /\ Tells(Reply, t, k) => In(t, k)'
                /\ In(t, k) => In(t, k)' \/ Strays(Reply, t, k)
  PROVE  HInv'
<1>0. wire \in Seq(Frame) /\ wire # <<>> /\ Reply.at = step /\ ready \in Nat /\ (sweeps # {} => ready > 0)
  <2>1. ready \in Nat
    BY DEF IInv, Typed
  <2>. QED
    BY <2>1 DEF IInv, Typed, Resumes
<1>1. Once(wire', hurried')
  <2>1. Once(wire, hurried')
    BY OnceHurry DEF HInv, Falls
  <2>. QED
    BY <1>0, <2>1, OnceTail
<1>2. Agreed'
  <2>1. Queued(wire') \subseteq Queued(wire)
    <3>1. Reply \in Frame
      BY <1>0, Queue
    <3>. QED
      BY <1>0, <3>1, QueuedMoves
  <2>. QED
    BY <2>1, AgreedAfter DEF HInv
<1>3. Hears'
  <2>. SUFFICES ASSUME NEW t \in Tab, NEW k \in Party, Has(t, k)'
                PROVE  HearsOf(t, k)'
    BY DEF Hears
  <2>1. HearsOf(t, k)
    BY Had DEF HInv, Hears
  <2>2. InOrder(wire', t, k)
    BY <1>0, <2>1, TailKeeps DEF HearsOf
  <2>3. sock'[t] = "on" => In(t, k)' \/ Told(wire', t, k)
    <3>. SUFFICES ASSUME sock[t] = "on", ~In(t, k)'
                  PROVE  Told(wire', t, k)
      OBVIOUS
    <3>1. CASE In(t, k)
      BY <1>0, <2>1, <3>1, TailKeeps DEF HearsOf, Reply
    <3>2. CASE Told(wire, t, k)
      BY <1>0, <3>2, TailKeeps DEF Reply
    <3>. QED
      BY <2>1, <3>1, <3>2 DEF HearsOf
  <2>4. Swept(t, k)' => Later(wire', ready', t, k)
    <3>1. CASE Swept(t, k) /\ ready' = ready - 1
      <4>1. ready > 0 /\ Later(wire, ready, t, k)
        BY <1>0, <2>1, <3>1 DEF HearsOf, Swept
      <4>2. ~Wrote(Head(wire), {"joined"}, Owner[t], k)
        BY <1>0 DEF Wrote, Reply
      <4>. QED
        BY <1>0, <3>1, <4>1, <4>2, TailKeeps
    <3>2. CASE Kicks(Reply, Owner[t], k)
      BY <1>0, <2>1, <3>2, TailKeeps DEF HearsOf, Reply
    <3>. QED
      BY <3>1, <3>2
  <2>. QED
    BY <2>2, <2>3, <2>4 DEF HearsOf
<1>. QED
  BY <1>1, <1>2, <1>3 DEF HInv

\* The head is carried out, which issues another frame.
LEMMA AnsweringThen ==
  ASSUME IInv, HInv, Falls, UNCHANGED <<sock, heard>>, NEW step, Resumes(step), Continue,
         NEW f \in Frame, wire' = Append(Tail(wire), f), Agrees(f)',
         Own(f) => Own(Reply) /\ Owner[f.tab] = Owner[Reply.tab],
         \A t \in Tab, k \in Party : Has(t, k)' =>
           /\ ~Strays(f, t, k) /\ ~Kicks(f, Owner[t], k)
           /\ Tells(Reply, t, k) => Tells(f, t, k)
           /\ Wrote(Reply, {"joined"}, Owner[t], k) => Wrote(f, {"accepted"}, Owner[t], k)
  PROVE  HInv'
<1>0. /\ wire \in Seq(Frame) /\ wire # <<>> /\ Tail(wire) \in Seq(Frame) /\ Reply \in Frame
      /\ ready \in Nat /\ ready <= Len(wire) /\ (sweeps # {} => ready > 0)
      /\ Len(Tail(wire)) = Len(wire) - 1 /\ Len(wire) \in Nat
  <2>1. ready \in Nat /\ ready <= Len(wire) /\ wire \in Seq(Frame) /\ wire # <<>> /\ (sweeps # {} => ready > 0)
    BY DEF IInv, Typed, Resumes
  <2>. QED
    BY <2>1, Queue, PlacesTail
<1>1. Once(wire', hurried')
  <2>0. Once(wire, hurried')
    BY OnceHurry DEF HInv, Falls
  <2>1. /\ Once(Tail(wire), hurried')
        /\ Own(Reply) => Owner[Reply.tab] \in hurried' \/
             \A g \in Queued(Tail(wire)) : Own(g) => Owner[g.tab] # Owner[Reply.tab]
    BY <1>0, <2>0, OnceTail DEF Reply
  <2>2. Own(f) => Owner[f.tab] \in hurried' \/ \A g \in Queued(Tail(wire)) : Own(g) => Owner[g.tab] # Owner[f.tab]
    BY <2>1
  <2>. QED
    BY <1>0, <2>1, <2>2, OnceAppend
<1>2. ActiveMinted'
  BY DEF HInv, ActiveMinted, Falls, heard
<1>3. Agreed'
  <2>1. Queued(Tail(wire)) \subseteq Queued(wire) /\ Queued(wire') = Queued(Tail(wire)) \cup {f}
    BY <1>0, QueuedMoves
  <2>. QED
    BY <2>1, AgreedAfter DEF HInv
<1>4. Hears'
  <2>. SUFFICES ASSUME NEW t \in Tab, NEW k \in Party, Has(t, k)'
                PROVE  HearsOf(t, k)'
    BY DEF Hears
  <2>1. HearsOf(t, k)
    BY Had DEF HInv, Hears
  <2>2. InOrder(wire', t, k)
    <3>1. InOrder(Tail(wire), t, k)
      BY <1>0, <2>1, TailKeeps DEF HearsOf
    <3>. QED
      BY <1>0, <3>1, AppendKeeps
  <2>3. sock'[t] = "on" => In(t, k)' \/ Told(wire', t, k)
    <3>. SUFFICES ASSUME sock[t] = "on"
                  PROVE  In(t, k)' \/ Told(wire', t, k)
      OBVIOUS
    <3>1. CASE In(t, k)
      BY <3>1 DEF In, heard
    <3>2. CASE Told(wire, t, k)
      <4>1. CASE Tells(Reply, t, k)
        BY <1>0, <4>1, AppendKeeps
      <4>2. CASE ~Tells(Reply, t, k)
        <5>1. Told(Tail(wire), t, k)
          BY <1>0, <3>2, <4>2, TailKeeps DEF Reply
        <5>. QED
          BY <1>0, <5>1, AppendKeeps
      <4>. QED
        BY <4>1, <4>2
    <3>. QED
      BY <2>1, <3>1, <3>2 DEF HearsOf
  <2>4. Swept(t, k)' => Later(wire', ready', t, k)
    <3>. SUFFICES ASSUME Swept(t, k)'
                  PROVE  Later(wire', ready', t, k)
      OBVIOUS
    <3>1. Swept(t, k) /\ ready' = ready - 1 /\ ready > 0 /\ Later(wire, ready, t, k)
      BY <1>0, <2>1 DEF HearsOf, Swept, Continue, Passed
    <3>2. ready - 1 \in Nat /\ ready - 1 <= Len(Tail(wire))
      BY <1>0, <3>1
    <3>3. CASE Wrote(Reply, {"joined"}, Owner[t], k)
      BY <1>0, <3>1, <3>2, <3>3, AppendKeeps
    <3>4. CASE ~Wrote(Reply, {"joined"}, Owner[t], k)
      <4>1. Later(Tail(wire), ready - 1, t, k)
        BY <1>0, <3>1, <3>4, TailKeeps DEF Reply
      <4>. QED
        BY <1>0, <3>1, <3>2, <4>1, AppendKeeps
    <3>. QED
      BY <3>3, <3>4
  <2>. QED
    BY <2>2, <2>3, <2>4 DEF HearsOf
<1>. QED
  BY <1>1, <1>2, <1>3, <1>4 DEF HInv

\* A key is written, and the frame of that writing comes last.
LEMMA Rising ==
  ASSUME IInv, HInv, UNCHANGED <<sock, heard>>,
         NEW u \in User, NEW p \in Party, playerParty' = [playerParty EXCEPT ![u] = p],
         minted \subseteq minted', p \in minted', hurried \subseteq hurried',
         \A q \in minted : ~Exists(q) => ~Exists(q)', ready' \in Nat,
         NEW w \in Seq(Frame), NEW f \in Frame, wire' = Append(w, f),
         Queued(w) \subseteq Queued(wire), Once(w, hurried'),
         u \in hurried' \/ \A g \in Queued(w) : Own(g) => Owner[g.tab] # u,
         f.at = "joined" \/ (f.at = "created" /\ sweeps' = {} /\ p \notin minted),
         f.party = p, Owner[f.tab] = u,
         \A t \in Tab, k \in Party : HearsOf(t, k) =>
           /\ sock[t] = "on" => In(t, k) \/ Told(w, t, k)
           /\ InOrder(w, t, k)
           /\ Swept(t, k)' => Later(w, ready', t, k)
  PROVE  HInv'
<1>1. Once(wire', hurried')
  BY OnceAppend
<1>2. ActiveMinted'
  BY DEF HInv, ActiveMinted, heard
<1>3. \A v \in User : playerParty'[v] = IF v = u THEN p ELSE playerParty[v]
  BY DEF IInv, Sound
<1>4. Queued(w) \subseteq Frame /\ Queued(wire') = Queued(w) \cup {f} /\ \A g \in Queued(w) : Agrees(g)
  <2>1. Queued(w) \subseteq Frame /\ Queued(wire') = Queued(w) \cup {f}
    BY QueuedMoves
  <2>. QED
    BY <2>1 DEF HInv, Agreed
<1>5. Agreed'
  <2>1. ASSUME NEW g \in Queued(w)
        PROVE  Agrees(g)'
    <3>1. Agrees(g) /\ g \in Frame
      BY <1>4
    <3>2. g.at \in Answers \cup {"left"} => Own(g) /\ Owner[g.tab] \in User
      BY <3>1, FrameCarries, PartySessionAssumption DEF Answers, Own
    <3>3. g.at \in Answers \cup {"left"} => Owner[g.tab] \in hurried' \/ playerParty'[Owner[g.tab]] = playerParty[Owner[g.tab]]
      BY <1>3, <3>2
    <3>4. g.at \in Answers => Owner[g.tab] \in hurried' \/ playerParty'[Owner[g.tab]] \in {g.party, NoParty}
      BY <3>1, <3>3 DEF Agrees
    <3>5. g.at = "left" => Owner[g.tab] \in hurried' \/ playerParty'[Owner[g.tab]] = NoParty
      BY <3>1, <3>3 DEF Agrees
    <3>6. /\ g.at \in {"left", "goneLeft"} => (g.disbanded => g.party \in minted' /\ ~Exists(g.party)')
          /\ g.at \in Answers \cup {"restore"} => g.party \in minted' \cup {NoParty}
          /\ g.at = "kicked" => g.party \in minted'
      BY <3>1 DEF Agrees
    <3>. QED
      BY <3>4, <3>5, <3>6 DEF Agrees
  <2>2. Agrees(f)'
    BY <1>3 DEF Agrees, Answers
  <2>3. \A g \in Queued(wire') : Agrees(g)'
    BY <1>4, <2>1, <2>2
  <2>. QED
    BY <2>3 DEF Agreed
<1>6. Hears'
  <2>. SUFFICES ASSUME NEW t \in Tab, NEW k \in Party, Has(t, k)'
                PROVE  HearsOf(t, k)'
    BY DEF Hears
  <2>0. Owner[t] \in User /\ Owner[t] \notin hurried' /\ playerParty'[Owner[t]] = k
    BY PartySessionAssumption DEF Has
  <2>1. CASE Owner[t] = u
    <3>1. k = p /\ Tells(f, t, k) /\ Wrote(f, {f.at}, Owner[t], k)
      BY <1>3, <2>0, <2>1 DEF Tells, Wrote, Answers
    <3>2. Told(wire', t, k)
      BY <3>1, AppendKeeps
    <3>3. InOrder(wire', t, k)
      <4>1. CASE f.at = "joined"
        BY <3>1, <4>1, AppendKeeps
      <4>2. CASE f.at = "created" /\ p \notin minted
        <5>1. \A g \in Queued(w) : ~Kicks(g, Owner[t], k)
          BY <1>4, <3>1, <4>2 DEF Kicks, Agrees
        <5>. QED
          BY <3>1, <4>2, <5>1, AppendKeeps
      <4>. QED
        BY <4>1, <4>2
    <3>4. Swept(t, k)' => Later(wire', ready', t, k)
      <4>1. CASE f.at = "joined"
        BY <3>1, <4>1, AppendKeeps
      <4>2. CASE sweeps' = {}
        BY <4>2 DEF Swept
      <4>. QED
        BY <4>1, <4>2
    <3>. QED
      BY <3>2, <3>3, <3>4 DEF HearsOf
  <2>2. CASE Owner[t] # u
    <3>1. Has(t, k)
      BY <1>3, <2>0, <2>2 DEF Has
    <3>2. /\ sock[t] = "on" => In(t, k) \/ Told(w, t, k)
          /\ InOrder(w, t, k)
          /\ Swept(t, k)' => Later(w, ready', t, k)
      BY <3>1 DEF HInv, Hears
    <3>3. ~Strays(f, t, k) /\ ~Kicks(f, Owner[t], k)
      BY DEF Strays, Kicks
    <3>4. In(t, k) => In(t, k)'
      BY DEF In, heard
    <3>5. Told(w, t, k) => Told(wire', t, k)
      BY AppendKeeps
    <3>6. InOrder(wire', t, k)
      BY <3>2, <3>3, AppendKeeps
    <3>7. Swept(t, k)' => Later(wire', ready', t, k)
      BY <3>2, AppendKeeps
    <3>. QED
      BY <3>2, <3>4, <3>5, <3>6, <3>7 DEF HearsOf
  <2>. QED
    BY <2>1, <2>2
<1>. QED
  BY <1>1, <1>2, <1>5, <1>6 DEF HInv

-----------------------------------------------------------------------------
(* Requests and events *)

\* Who asks has nothing under way, in any tab, or is in a hurry from now on.
LEMMA AsksOnce ==
  ASSUME IInv, NEW t \in Tab, NEW kind, Ask(t, kind)
  PROVE  /\ Owner[t] \in hurried' \/ \A g \in Queued(wire) : Own(g) => Owner[g.tab] # Owner[t]
         /\ sock[t] = "on" /\ Owner[t] \in User /\ hurried \subseteq hurried'
         /\ sweeps = {} /\ sweeps' = {} /\ ready' = ready
<1>1. /\ sock[t] = "on" /\ Owner[t] \in User /\ hurried \subseteq hurried'
      /\ sweeps = {} /\ sweeps' = {} /\ ready' = ready
  BY PartySessionAssumption DEF Ask, Idle
<1>2. ASSUME NEW g \in Queued(wire), Own(g), Owner[g.tab] = Owner[t]
      PROVE  Owner[t] \in hurried'
  <2>1. PICK i \in DOMAIN wire : g = wire[i]
    BY <1>2 DEF Queued
  <2>2. g \in Frame
    BY <2>1 DEF IInv, Typed
  <2>3. g.tab \in Tab
    BY <1>2, <2>2, FrameCarries DEF Own, Frame
  <2>4. Asking(g.tab)
    BY <1>2, <2>1 DEF Asking, Own
  <2>. QED
    BY <1>2, <2>3, <2>4 DEF Ask
<1>. QED
  BY <1>1, <1>2

\* Steps of Redis and of the database, and requests that are refused.
LEMMA QuietHears ==
  ASSUME IInv, HInv,
         \/ \E u \in User, p \in Party : Invite(u, p) \/ LapseInvite(u, p)
         \/ \E u \in User : LapseKey(u)
         \/ \E p \in Party : LapseParty(p)
         \/ \E t \in Tab, p \in Party : Decline(t, p) \/ (AskCreate(t, p) /\ playerParty[Owner[t]] # NoParty)
         \/ UNCHANGED vars
  PROVE  HInv'
<1>1. UNCHANGED <<heard, sock, wire, sweeps, ready>> /\ hurried \subseteq hurried'
  BY AsksOnce DEF Invite, LapseInvite, LapseKey, LapseParty, Decline, AskCreate, Idle, asks, vars
<1>2. Falls
  <2>1. CASE \E u \in User : LapseKey(u)
    <3>1. PICK u \in User : LapseKey(u)
      BY <2>1
    <3>2. \A v \in User : playerParty'[v] \in {playerParty[v], NoParty}
      BY <3>1 DEF LapseKey, IInv, Sound
    <3>. QED
      BY <1>1, <3>1, <3>2 DEF LapseKey, Falls, Exists
  <2>2. CASE \E p \in Party : LapseParty(p)
    <3>1. PICK p \in Party : LapseParty(p)
      BY <2>2
    <3>2. \A q \in Party : Exists(q)' => Exists(q)
      BY <3>1 DEF LapseParty, Exists, IInv, Sound
    <3>. QED
      BY <1>1, <3>1, <3>2 DEF LapseParty, Falls
  <2>3. CASE UNCHANGED <<parties, playerParty, minted>>
    BY <1>1, <2>3, StillFalls
  <2>. QED
    BY <2>1, <2>2, <2>3 DEF Invite, LapseInvite, Decline, AskCreate, vars, storeVars
<1>. QED
  BY <1>1, <1>2, Staying DEF heard

\* A user without a party makes one.
LEMMA CreateHears ==
  ASSUME IInv, HInv, NEW t \in Tab, NEW p \in Party, AskCreate(t, p), playerParty[Owner[t]] = NoParty
  PROVE  HInv'
<1>. DEFINE f == [at |-> "created", tab |-> t, party |-> p]
<1>1. /\ f \in Frame /\ wire' = Append(wire, f) /\ Ask(t, "create") /\ CreateScript(p, Owner[t])
      /\ p \notin minted /\ minted' = minted \cup {p} /\ UNCHANGED <<sock, heard>>
  BY DEF AskCreate, Issue, Frame
<1>2. /\ Owner[t] \in User /\ hurried \subseteq hurried' /\ sweeps' = {}
      /\ Owner[t] \in hurried' \/ \A g \in Queued(wire) : Own(g) => Owner[g.tab] # Owner[t]
  BY <1>1, AsksOnce
<1>3. \A q \in minted : ~Exists(q) => ~Exists(q)'
  BY <1>1 DEF CreateScript, Exists, IInv, Sound
<1>4. f.at = "created" /\ f.party = p /\ f.tab = t
  OBVIOUS
<1>5. playerParty' = [playerParty EXCEPT ![Owner[t]] = p]
  BY <1>1 DEF CreateScript
<1>6. wire \in Seq(Frame) /\ Once(wire, hurried') /\ Queued(wire) \subseteq Queued(wire) /\ ready' \in Nat
  BY <1>1, <1>2, AsksOnce, OnceHurry DEF IInv, Typed, HInv
<1>7. minted \subseteq minted' /\ p \in minted'
  BY <1>1
<1>8. \A s \in Tab, k \in Party : HearsOf(s, k) =>
        /\ sock[s] = "on" => In(s, k) \/ Told(wire, s, k)
        /\ InOrder(wire, s, k)
        /\ Swept(s, k)' => Later(wire, ready', s, k)
  BY <1>2 DEF HearsOf, Swept
<1>. HIDE DEF f
<1>. QED
  BY <1>1, <1>2, <1>3, <1>4, <1>5, <1>6, <1>7, <1>8, Rising

\* Requests that only read.
LEMMA AskHears ==
  ASSUME IInv, HInv, NEW t \in Tab,
         \/ \E u \in User : AskInvite(t, u)
         \/ \E p \in Party : AskAccept(t, p)
         \/ AskSync(t)
  PROVE  HInv'
<1>1. /\ UNCHANGED <<parties, playerParty, minted, sock, heard>>
      /\ \E kind : Ask(t, kind)
  BY DEF AskInvite, AskAccept, AskSync, storeVars
<1>2. /\ Owner[t] \in User /\ hurried \subseteq hurried' /\ sweeps' = {}
      /\ Owner[t] \in hurried' \/ \A g \in Queued(wire) : Own(g) => Owner[g.tab] # Owner[t]
  BY <1>1, AsksOnce
<1>3. PICK f \in Frame : /\ wire' = Append(wire, f) /\ f.tab = t
                         /\ \/ f.at \in {"checkInvite", "accept"}
                            \/ f.at = "syncKey" /\ f.party = playerParty[Owner[t]]
  <2>1. CASE \E u \in User : AskInvite(t, u)
    <3>1. PICK u \in User : AskInvite(t, u)
      BY <2>1
    <3>2. active[t] \in Party /\ parties[active[t]] \in Record \cup {NoRecord}
      BY <3>1 DEF AskInvite, IInv, Typed, Sound, MaybeParty
    <3>. DEFINE f == [at |-> "checkInvite", tab |-> t, party |-> active[t], target |-> u, copy |-> parties[active[t]]]
    <3>3. f \in Frame
      BY <3>2 DEF Frame
    <3>. QED
      BY <3>1, <3>3 DEF AskInvite, Issue
  <2>2. CASE \E p \in Party : AskAccept(t, p)
    <3>1. PICK p \in Party : AskAccept(t, p)
      BY <2>2
    <3>. DEFINE f == [at |-> "accept", tab |-> t, party |-> p]
    <3>2. f \in Frame
      BY DEF Frame
    <3>. QED
      BY <3>1, <3>2 DEF AskAccept, Issue
  <2>3. CASE AskSync(t)
    <3>. DEFINE f == [at |-> "syncKey", tab |-> t, party |-> playerParty[Owner[t]]]
    <3>1. f \in Frame
      BY <1>2 DEF Frame, IInv, Sound
    <3>. QED
      BY <2>3, <3>1 DEF AskSync, Issue
  <2>. QED
    BY <2>1, <2>2, <2>3
<1>4. Falls
  BY <1>1, <1>2, StillFalls
<1>5. Agrees(f)'
  <2>1. playerParty[Owner[t]] \in minted \cup {NoParty}
    BY <1>2, KeyExists DEF IInv
  <2>2. Agrees(f)
    BY <1>3, <2>1 DEF Agrees, Answers
  <2>. QED
    BY <1>4, <2>2, AgreesFalls
<1>6. \A s \in Tab, k \in Party : Has(s, k)' =>
        /\ ~Strays(f, s, k) /\ ~Kicks(f, Owner[s], k)
        /\ sock'[s] = "on" => Tells(f, s, k) \/ (sock[s] = "on" /\ rooms'[s] = rooms[s])
  BY <1>1, <1>3 DEF Strays, Kicks, heard
<1>. QED
  BY <1>1, <1>2, <1>3, <1>4, <1>5, <1>6, Adding DEF heard

\* A member leaves.
LEMMA LeaveHears ==
  ASSUME IInv, HInv, NEW t \in Tab, AskLeave(t)
  PROVE  HInv'
<1>0. active[t] \in Party /\ active[t] \in minted
  BY DEF AskLeave, IInv, Typed, MaybeParty, HInv, ActiveMinted
<1>. PICK p \in Party : p = active[t]
  BY <1>0
<1>. PICK b \in BOOLEAN : b = Disbands(p, Owner[t])
  BY DEF Disbands
<1>. DEFINE f == [at |-> "left", tab |-> t, party |-> p, disbanded |-> b]
<1>1. /\ wire' = Append(wire, f) /\ Ask(t, "leave") /\ LeaveScript(p, Owner[t])
      /\ minted' = minted /\ UNCHANGED <<sock, heard>>
  BY DEF AskLeave, Issue
<1>2. /\ Owner[t] \in User /\ hurried \subseteq hurried' /\ sweeps' = {}
      /\ Owner[t] \in hurried' \/ \A g \in Queued(wire) : Own(g) => Owner[g.tab] # Owner[t]
  BY <1>1, AsksOnce
<1>3. Falls /\ playerParty'[Owner[t]] = NoParty /\ (b => ~Exists(p)')
  <2>1. Falls /\ playerParty'[Owner[t]] = NoParty /\ (Disbands(p, Owner[t]) => ~Exists(p)')
    BY <1>1, <1>2, LeaveFalls DEF IInv
  <2>. QED
    BY <2>1
<1>4. f \in Frame /\ f.at = "left" /\ f.tab = t /\ f.party = p /\ f.disbanded = b
  BY DEF Frame
<1>. HIDE DEF f
<1>5. Agrees(f)'
  BY <1>0, <1>1, <1>3, <1>4 DEF Agrees, Answers
<1>6. \A s \in Tab, k \in Party : Has(s, k)' =>
        /\ ~Strays(f, s, k) /\ ~Kicks(f, Owner[s], k)
        /\ sock'[s] = "on" => Tells(f, s, k) \/ (sock[s] = "on" /\ rooms'[s] = rooms[s])
  BY <1>1, <1>4 DEF Strays, Kicks, heard
<1>. QED
  BY <1>1, <1>2, <1>3, <1>4, <1>5, <1>6, Adding DEF heard

\* A member is put out.
LEMMA KickHears ==
  ASSUME IInv, HInv, NEW t \in Tab, NEW target \in User, AskKick(t, target)
  PROVE  HInv'
<1>0. active[t] \in Party /\ active[t] \in minted
  BY DEF AskKick, IInv, Typed, MaybeParty, HInv, ActiveMinted
<1>. PICK p \in Party : p = active[t]
  BY <1>0
<1>. DEFINE f == [at |-> "kicked", tab |-> t, party |-> p, target |-> target]
<1>1. /\ wire' = Append(wire, f) /\ Ask(t, "kick") /\ MayKick(p, Owner[t], target) /\ KickScript(p, target)
      /\ minted' = minted /\ UNCHANGED <<sock, heard>>
  BY DEF AskKick, Issue
<1>2. /\ Owner[t] \in User /\ hurried \subseteq hurried' /\ sweeps' = {}
      /\ Owner[t] \in hurried' \/ \A g \in Queued(wire) : Own(g) => Owner[g.tab] # Owner[t]
  BY <1>1, AsksOnce
<1>4. Falls /\ playerParty'[target] = NoParty
  BY <1>1, <1>2, KickFalls DEF IInv
<1>5. f \in Frame /\ f.at = "kicked" /\ f.tab = t /\ f.target = target /\ f.party = p
  BY DEF Frame
<1>. HIDE DEF f
<1>6. Agrees(f)'
  <2>1. Agrees(f)
    BY <1>0, <1>5 DEF Agrees, Answers
  <2>. QED
    BY <1>4, <1>5, <2>1, AgreesFalls
<1>7. \A s \in Tab, k \in Party : Has(s, k)' =>
        /\ ~Strays(f, s, k) /\ ~Kicks(f, Owner[s], k)
        /\ sock'[s] = "on" => Tells(f, s, k) \/ (sock[s] = "on" /\ rooms'[s] = rooms[s])
  <2>1. ASSUME NEW s \in Tab, NEW k \in Party, Has(s, k)'
        PROVE  Owner[s] # target
    BY <1>4, <2>1, PartySessionAssumption DEF Has
  <2>. QED
    BY <1>1, <1>5, <2>1 DEF Strays, Kicks, heard
<1>. QED
  BY <1>1, <1>2, <1>4, <1>5, <1>6, <1>7, Adding DEF heard

-----------------------------------------------------------------------------
(* Answers *)

\* The head of the queue is a frame that agrees with the store.
LEMMA ReplyAgrees ==
  ASSUME IInv, HInv, wire # <<>>
  PROVE  Reply \in Frame /\ Agrees(Reply) /\ wire \in Seq(Frame)
<1>1. wire \in Seq(Frame) /\ Reply \in Frame
  BY Queue DEF IInv, Typed
<1>2. Reply \in Queued(wire)
  BY <1>1, QueuedMoves DEF Reply
<1>. QED
  BY <1>1, <1>2 DEF HInv, Agreed

\* What an answer that fetches no sockets leaves of the sweeps.
LEMMA SweepsWait ==
  ASSUME IInv, NEW step, Resumes(step), Continue
  PROVE  ready' \in Nat /\ \A t, k : Swept(t, k)' => Swept(t, k) /\ ready' = ready - 1
BY DEF Continue, Passed, Resumes, IInv, Typed, Swept

\* setUserPartyMembership, for every tab of the user that is open.
LEMMA MembershipHears ==
  ASSUME IInv, HInv, NEW step, Resumes(step), step \in Answers \ {"joined"},
         SetMembership(Owner[Reply.tab], Reply.party),
         Return, UNCHANGED <<parties, playerParty, minted, sock, hurried>>
  PROVE  HInv'
<1>1. Falls /\ wire # <<>> /\ Reply.at = step
  BY StillFalls DEF Resumes
<1>2. PICK r \in Frame : r = Reply /\ Agrees(r)
  BY <1>1, ReplyAgrees
<1>3. \A t \in Tab : active'[t] = IF Owner[t] = Owner[r.tab] /\ sock[t] = "on" THEN r.party ELSE active[t]
  BY <1>2 DEF SetMembership, TabsOf
<1>4. ActiveMinted'
  BY <1>1, <1>2, <1>3 DEF HInv, ActiveMinted, Agrees
<1>5. ASSUME NEW t \in Tab, NEW k \in Party, Has(t, k)', sock[t] = "on"
      PROVE  /\ Tells(r, t, k) => In(t, k)'
             /\ In(t, k) => In(t, k)'
  <2>0. playerParty[Owner[t]] = k /\ Owner[t] \notin hurried /\ k # NoParty
    BY <1>5, PartySessionAssumption DEF Has
  <2>1. CASE Owner[t] = Owner[r.tab]
    <3>1. r.party = k
      BY <1>1, <1>2, <2>0, <2>1 DEF Agrees
    <3>2. k \in rooms'[t]
      BY <1>2, <1>5, <2>1, <3>1 DEF SetMembership, TabsOf
    <3>. QED
      BY <1>3, <1>5, <2>1, <3>1, <3>2 DEF In
  <2>2. CASE Owner[t] # Owner[r.tab]
    <3>1. ~Tells(r, t, k)
      BY <1>1, <1>2, <2>2 DEF Tells, Answers
    <3>2. rooms'[t] = rooms[t] /\ (t \in overtaken => t \in overtaken')
      BY <1>2, <2>2 DEF SetMembership, TabsOf
    <3>. QED
      BY <1>3, <2>2, <3>1, <3>2 DEF In
  <2>. QED
    BY <2>1, <2>2
<1>. QED
  BY <1>1, <1>2, <1>4, <1>5, SweepsWait, Answering DEF Return

\* An answer that moves no tab, or refuses.
LEMMA NothingHears ==
  ASSUME IInv, HInv, NEW step, Resumes(step), step \in {"checkInvite", "accept"},
         Return, UNCHANGED <<parties, playerParty, minted, sock, heard, hurried>>
  PROVE  HInv'
<1>1. Falls /\ Reply.at = step
  BY StillFalls DEF Resumes
<1>2. ActiveMinted'
  BY DEF HInv, ActiveMinted, heard
<1>3. \A t, k : ~Tells(Reply, t, k)
  BY <1>1 DEF Tells, Answers
<1>4. \A t, k : In(t, k) => In(t, k)'
  BY DEF In, heard
<1>. QED
  BY <1>1, <1>2, <1>3, <1>4, SweepsWait, Answering DEF Return

\* An invitation is accepted: the key is written, and "joined" comes last.
LEMMA JoinHears ==
  ASSUME IInv, HInv, Accept, MayJoin(Reply.party, Owner[Reply.tab])
  PROVE  HInv'
<1>1. /\ wire # <<>> /\ Reply.at = "accept" /\ JoinScript(Reply.party, Owner[Reply.tab])
      /\ wire' = Append(Tail(wire), [Reply EXCEPT !.at = "joined"])
      /\ Resumes("accept") /\ Continue
      /\ UNCHANGED <<minted, sock, heard, hurried>>
  BY DEF Accept, Resumes, Then, asks
<1>2. Reply \in Frame /\ Reply.tab \in Tab /\ Reply.party \in Party /\ [Reply EXCEPT !.at = "joined"] \in Frame
      /\ wire \in Seq(Frame)
  BY <1>1, ReplyAgrees, FrameCarries
<1>. PICK r \in Frame : r = Reply
  BY <1>2
<1>. PICK f \in Frame : f = [r EXCEPT !.at = "joined"]
  BY <1>2
<1>3. f.at = "joined" /\ f.tab = r.tab /\ f.party = r.party
  BY <1>1 DEF Frame
<1>4. Owner[r.tab] \in User
  BY <1>2, PartySessionAssumption
<1>5. playerParty' = [playerParty EXCEPT ![Owner[r.tab]] = r.party]
  BY <1>1 DEF JoinScript
<1>6. Exists(r.party) /\ r.party \in minted
  BY <1>2 DEF MayJoin, IInv, Sound
<1>7. \A q \in minted : ~Exists(q) => ~Exists(q)'
  <2>1. \A q \in Party : q # r.party => parties'[q] = parties[q]
    BY <1>1 DEF JoinScript, IInv, Sound
  <2>. QED
    BY <1>6, <2>1 DEF Exists, IInv, Sound
<1>8. /\ Tail(wire) \in Seq(Frame) /\ Queued(Tail(wire)) \subseteq Queued(wire) /\ Once(Tail(wire), hurried')
      /\ Owner[r.tab] \in hurried' \/ \A g \in Queued(Tail(wire)) : Own(g) => Owner[g.tab] # Owner[r.tab]
  <2>1. Own(Reply)
    BY <1>1 DEF Own
  <2>2. Queued(Tail(wire)) \subseteq Queued(wire)
    BY <1>1, <1>2, QueuedMoves
  <2>3. /\ Once(Tail(wire), hurried)
        /\ Owner[Reply.tab] \in hurried \/ \A g \in Queued(Tail(wire)) : Own(g) => Owner[g.tab] # Owner[Reply.tab]
    BY <1>1, <1>2, <2>1, OnceTail DEF HInv, Reply
  <2>. QED
    BY <1>1, <1>2, <2>2, <2>3
<1>9. ASSUME NEW t \in Tab, NEW k \in Party, HearsOf(t, k)
      PROVE  /\ sock[t] = "on" => In(t, k) \/ Told(Tail(wire), t, k)
             /\ InOrder(Tail(wire), t, k)
             /\ Swept(t, k)' => Later(Tail(wire), ready', t, k)
  <2>1. ~Tells(Head(wire), t, k) /\ ~Wrote(Head(wire), {"joined"}, Owner[t], k)
    BY <1>1 DEF Tells, Wrote, Answers, Reply
  <2>2. Swept(t, k)' => Swept(t, k) /\ ready > 0 /\ ready' = ready - 1 /\ ready \in Nat
    BY <1>1 DEF Swept, Continue, Passed, Resumes, IInv, Typed
  <2>. QED
    BY <1>1, <1>2, <1>9, <2>1, <2>2, TailKeeps DEF HearsOf
<1>10. /\ wire' = Append(Tail(wire), f) /\ r.party \in Party /\ minted \subseteq minted' /\ r.party \in minted'
       /\ ready' \in Nat /\ hurried \subseteq hurried'
  BY <1>1, <1>2, <1>3, <1>6, SweepsWait
<1>. QED
  BY <1>1, <1>3, <1>4, <1>5, <1>7, <1>8, <1>9, <1>10, Rising

\* The invitation goes, then the answer comes.
LEMMA RemoveHears ==
  ASSUME IInv, HInv, RemoveInvite
  PROVE  HInv'
<1>1. /\ wire # <<>> /\ Reply.at = "joined" /\ wire' = Append(Tail(wire), [Reply EXCEPT !.at = "accepted"])
      /\ Resumes("joined") /\ Continue
      /\ UNCHANGED <<parties, playerParty, minted, sock, heard, hurried>>
  BY DEF RemoveInvite, Resumes, Then, asks
<1>2. Reply \in Frame /\ Agrees(Reply) /\ [Reply EXCEPT !.at = "accepted"] \in Frame
  BY <1>1, ReplyAgrees, FrameCarries
<1>. PICK r \in Frame : r = Reply
  BY <1>2
<1>. PICK f \in Frame : f = [r EXCEPT !.at = "accepted"]
  BY <1>2
<1>3. f.at = "accepted" /\ f.tab = r.tab /\ f.party = r.party
  BY <1>1 DEF Frame
<1>4. Falls
  BY <1>1, StillFalls
<1>5. Agrees(f)'
  <2>1. Agrees(f)
    BY <1>1, <1>2, <1>3 DEF Agrees, Answers
  <2>. QED
    BY <1>4, <2>1, AgreesFalls
<1>6. \A t, k : /\ ~Strays(f, t, k) /\ ~Kicks(f, Owner[t], k)
                /\ Tells(Reply, t, k) => Tells(f, t, k)
                /\ Wrote(Reply, {"joined"}, Owner[t], k) => Wrote(f, {"accepted"}, Owner[t], k)
  BY <1>1, <1>3 DEF Tells, Strays, Kicks, Wrote, Answers
<1>7. Own(Reply) /\ Owner[f.tab] = Owner[Reply.tab]
  BY <1>1, <1>3 DEF Own
<1>. QED
  BY <1>1, <1>4, <1>5, <1>6, <1>7, AnsweringThen

\* The party of the key is read: it is there as long as the key is.
LEMMA SyncPartyHears ==
  ASSUME IInv, HInv, SyncParty
  PROVE  HInv'
<1>1. /\ wire # <<>> /\ Reply.at = "syncKey" /\ Reply.party # NoParty
      /\ wire' = Append(Tail(wire), [Reply EXCEPT !.at = "syncParty", !.party = IF Exists(Reply.party) THEN Reply.party ELSE NoParty])
      /\ Resumes("syncKey") /\ Continue
      /\ UNCHANGED <<parties, playerParty, minted, sock, heard, hurried>>
  BY DEF SyncParty, Resumes, Then, storeVars, asks
<1>2. Reply \in Frame /\ Agrees(Reply) /\ Reply.tab \in Tab /\ Reply.party \in MaybeParty
      /\ \A p \in MaybeParty : [Reply EXCEPT !.at = "syncParty", !.party = p] \in Frame
  BY <1>1, ReplyAgrees, FrameCarries
<1>. PICK r \in Frame : r = Reply
  BY <1>2
<1>. PICK p \in MaybeParty : p = IF Exists(r.party) THEN r.party ELSE NoParty
  BY <1>2 DEF MaybeParty
<1>. PICK f \in Frame : f = [r EXCEPT !.at = "syncParty", !.party = p]
  BY <1>2
<1>3. f.at = "syncParty" /\ f.tab = r.tab /\ f.party = p
  BY <1>1 DEF Frame
<1>4. Falls
  BY <1>1, StillFalls
<1>5. Owner[r.tab] \in User
  BY <1>2, PartySessionAssumption
<1>6. playerParty[Owner[r.tab]] # NoParty /\ Owner[r.tab] \notin hurried => p = r.party
  <2>1. Owner[r.tab] \in hurried \/ playerParty[Owner[r.tab]] \in {r.party, NoParty}
    BY <1>1, <1>2 DEF Agrees, Answers
  <2>2. playerParty[Owner[r.tab]] # NoParty /\ Owner[r.tab] \notin hurried => Exists(r.party)
    BY <1>5, <2>1, KeyExists DEF IInv
  <2>. QED
    BY <2>2
<1>7. Agrees(f)'
  <2>1. /\ Owner[r.tab] \in hurried \/ playerParty[Owner[r.tab]] \in {r.party, NoParty}
        /\ r.party \in minted \cup {NoParty}
    BY <1>1, <1>2 DEF Agrees, Answers
  <2>2. p \in {r.party, NoParty}
    OBVIOUS
  <2>3. Agrees(f)
    BY <1>3, <1>6, <2>1, <2>2 DEF Agrees, Answers
  <2>. QED
    BY <1>4, <2>3, AgreesFalls
<1>8. ASSUME NEW t \in Tab, NEW k \in Party, Has(t, k)'
      PROVE  /\ ~Strays(f, t, k) /\ ~Kicks(f, Owner[t], k)
             /\ Tells(Reply, t, k) => Tells(f, t, k)
             /\ ~Wrote(Reply, {"joined"}, Owner[t], k)
  <2>0. playerParty[Owner[t]] = k /\ Owner[t] \notin hurried /\ k # NoParty
    BY <1>1, <1>8, PartySessionAssumption DEF Has
  <2>1. ~Strays(f, t, k) /\ ~Kicks(f, Owner[t], k) /\ ~Wrote(Reply, {"joined"}, Owner[t], k)
    BY <1>1, <1>3 DEF Strays, Kicks, Wrote
  <2>2. Tells(Reply, t, k) => Tells(f, t, k)
    BY <1>1, <1>3, <1>6, <2>0 DEF Tells, Answers
  <2>. QED
    BY <2>1, <2>2
<1>9. Own(Reply) /\ Owner[f.tab] = Owner[Reply.tab]
  BY <1>1, <1>3 DEF Own
<1>. QED
  BY <1>1, <1>3, <1>4, <1>7, <1>8, <1>9, AnsweringThen

\* Nobody with a party leaves it for having left, or for a party that is gone:
\* of the sockets fetched only those who were kicked may have come back.
LEMMA FetchSweeps ==
  ASSUME IInv, HInv, NEW step, Resumes(step), step \in {"left", "kicked", "goneLeft"},
         UNCHANGED <<parties, playerParty, minted, sock, hurried>>,
         \/ Return
         \/ step # "kicked" /\ Reply.disbanded /\ Fetch(Reply.party, User)
         \/ step = "kicked" /\ Fetch(Reply.party, {Reply.target})
  PROVE  /\ wire' = Tail(wire) /\ ready' \in Nat
         /\ \A t \in Tab, k \in Party : Has(t, k) /\ Swept(t, k)' =>
              (Swept(t, k) /\ ready' = ready - 1) \/ Kicks(Reply, Owner[t], k)
<1>1. wire # <<>> /\ Reply.at = step /\ (sweeps # {} => ready > 0) /\ ready \in Nat
  BY DEF Resumes, IInv, Typed
<1>2. Reply \in Frame /\ Agrees(Reply) /\ Reply.party \in Party /\ wire \in Seq(Frame)
  BY <1>1, ReplyAgrees, FrameCarries
<1>3. CASE Continue /\ wire' = Tail(wire)
  BY <1>3, SweepsWait
<1>4. ASSUME NEW who, wire' = Tail(wire), NEW tabs \in SUBSET {t \in Tab : Owner[t] \in who},
             sweeps' = sweeps \cup {[party |-> Reply.party, tabs |-> tabs]},
             ready' \in IF sweeps = {} THEN 0 .. Len(Tail(wire)) ELSE {Passed},
             \/ step # "kicked" /\ Reply.disbanded
             \/ step = "kicked" /\ who = {Reply.target}
      PROVE  /\ ready' \in Nat
             /\ \A t \in Tab, k \in Party : Has(t, k) /\ Swept(t, k)' =>
                  (Swept(t, k) /\ ready' = ready - 1) \/ Kicks(Reply, Owner[t], k)
  <2>1. ready' \in Nat /\ (sweeps # {} => ready' = ready - 1)
    BY <1>1, <1>4 DEF Passed
  <2>2. ASSUME NEW t \in Tab, NEW k \in Party, Has(t, k), k = Reply.party, t \in tabs
        PROVE  Kicks(Reply, Owner[t], k)
    <3>1. CASE step # "kicked" /\ Reply.disbanded
      <4>1. ~Exists(k)
        BY <1>1, <1>2, <2>2, <3>1 DEF Agrees
      <4>. QED
        BY <2>2, <4>1, KeyExists, PartySessionAssumption DEF IInv, Has
    <3>2. CASE step = "kicked" /\ who = {Reply.target}
      BY <1>1, <1>4, <2>2, <3>2 DEF Kicks
    <3>. QED
      BY <1>4, <3>1, <3>2
  <2>3. ASSUME NEW t \in Tab, NEW k \in Party, Has(t, k), Swept(t, k)'
        PROVE  (Swept(t, k) /\ ready' = ready - 1) \/ Kicks(Reply, Owner[t], k)
    <3>1. PICK s \in sweeps' : s.party = k /\ t \in s.tabs
      BY <2>3 DEF Swept
    <3>2. CASE s \in sweeps
      BY <2>1, <3>1, <3>2 DEF Swept
    <3>3. CASE s = [party |-> Reply.party, tabs |-> tabs]
      BY <2>2, <2>3, <3>1, <3>3
    <3>. QED
      BY <1>4, <3>1, <3>2, <3>3
  <2>. QED
    BY <2>1, <2>3
<1>5. ASSUME NEW who, Fetch(Reply.party, who)
      PROVE  /\ wire' = Tail(wire)
             /\ \/ Continue
                \/ \E tabs \in SUBSET {t \in Tab : Owner[t] \in who} :
                     /\ sweeps' = sweeps \cup {[party |-> Reply.party, tabs |-> tabs]}
                     /\ ready' \in IF sweeps = {} THEN 0 .. Len(Tail(wire)) ELSE {Passed}
  <2>. DEFINE tabs == {t \in Tab : sock[t] = "on" /\ Reply.party \in rooms'[t] /\ Owner[t] \in who}
  <2>1. tabs \in SUBSET {t \in Tab : Owner[t] \in who}
    OBVIOUS
  <2>2. /\ wire' = Tail(wire)
        /\ \/ Continue
           \/ /\ sweeps' = sweeps \cup {[party |-> Reply.party, tabs |-> tabs]}
              /\ ready' \in IF sweeps = {} THEN 0 .. Len(Tail(wire)) ELSE {Passed}
    BY <1>5 DEF Fetch
  <2>. HIDE DEF tabs
  <2>. QED
    BY <2>1, <2>2
<1>6. CASE Return
  BY <1>3, <1>6 DEF Return
<1>7. CASE step # "kicked" /\ Reply.disbanded /\ Fetch(Reply.party, User)
  <2>1. wire' = Tail(wire)
    BY <1>5, <1>7
  <2>2. CASE Continue
    BY <1>3, <2>1, <2>2
  <2>3. CASE ~Continue
    <3>1. PICK tabs \in SUBSET {t \in Tab : Owner[t] \in User} :
            /\ sweeps' = sweeps \cup {[party |-> Reply.party, tabs |-> tabs]}
            /\ ready' \in IF sweeps = {} THEN 0 .. Len(Tail(wire)) ELSE {Passed}
      BY <1>5, <1>7, <2>3
    <3>. QED
      BY <1>4, <1>7, <2>1, <3>1
  <2>. QED
    BY <2>2, <2>3
<1>8. CASE step = "kicked" /\ Fetch(Reply.party, {Reply.target})
  <2>1. wire' = Tail(wire)
    BY <1>5, <1>8
  <2>2. CASE Continue
    BY <1>3, <2>1, <2>2
  <2>3. CASE ~Continue
    <3>1. PICK tabs \in SUBSET {t \in Tab : Owner[t] \in {Reply.target}} :
            /\ sweeps' = sweeps \cup {[party |-> Reply.party, tabs |-> tabs]}
            /\ ready' \in IF sweeps = {} THEN 0 .. Len(Tail(wire)) ELSE {Passed}
      BY <1>5, <1>8, <2>3
    <3>. QED
      BY <1>4, <1>8, <2>1, <3>1
  <2>. QED
    BY <2>2, <2>3
<1>. QED
  BY <1>6, <1>7, <1>8

\* Who has left leaves the room; of a party that is no more, and of who was
\* put out, the sockets are fetched.
LEMMA OutHears ==
  ASSUME IInv, HInv, Left \/ Kicked \/ GoneLeft
  PROVE  HInv'
<1>1. PICK step \in {"left", "kicked", "goneLeft"} :
        /\ Resumes(step)
        /\ UNCHANGED <<parties, playerParty, minted, sock, hurried>>
        /\ \/ Return
           \/ step # "kicked" /\ Reply.disbanded /\ Fetch(Reply.party, User)
           \/ step = "kicked" /\ Fetch(Reply.party, {Reply.target})
        /\ step = "left" => SetMembership(Owner[Reply.tab], NoParty)
        /\ step # "left" => UNCHANGED heard
  <2>1. CASE Left
    BY <2>1 DEF Left, storeVars, asks
  <2>2. CASE Kicked
    BY <2>2 DEF Kicked, storeVars, asks
  <2>3. CASE GoneLeft
    BY <2>3 DEF GoneLeft, storeVars, asks
  <2>. QED
    BY <2>1, <2>2, <2>3
<1>2. Falls /\ wire # <<>> /\ Reply.at = step
  BY <1>1, StillFalls DEF Resumes
<1>. PICK r \in Frame : r = Reply /\ Agrees(r)
  BY <1>2, ReplyAgrees
<1>3. /\ wire' = Tail(wire) /\ ready' \in Nat
      /\ \A t \in Tab, k \in Party : Has(t, k) /\ Swept(t, k)' =>
           (Swept(t, k) /\ ready' = ready - 1) \/ Kicks(Reply, Owner[t], k)
  BY <1>1, FetchSweeps
<1>4. ActiveMinted'
  <2>1. \A t \in Tab : active'[t] \in {active[t], NoParty}
    BY <1>1 DEF SetMembership, heard, IInv, Typed
  <2>. QED
    BY <1>1, <2>1 DEF HInv, ActiveMinted
<1>5. ASSUME NEW t \in Tab, NEW k \in Party, Has(t, k)', sock[t] = "on"
      PROVE  ~Tells(Reply, t, k) /\ (In(t, k) => In(t, k)')
  <2>1. ~Tells(Reply, t, k)
    BY <1>2 DEF Tells, Answers
  <2>2. CASE step = "left"
    <3>1. Owner[t] # Owner[r.tab]
      <4>1. playerParty[Owner[t]] = k /\ Owner[t] \notin hurried /\ k # NoParty
        BY <1>1, <1>5, PartySessionAssumption DEF Has
      <4>. QED
        BY <1>2, <2>2, <4>1 DEF Agrees
    <3>2. t \notin TabsOf(Owner[r.tab])
      BY <3>1 DEF TabsOf
    <3>3. active'[t] = active[t] /\ rooms'[t] = rooms[t] /\ (t \in overtaken => t \in overtaken')
      BY <1>1, <2>2, <3>2 DEF SetMembership
    <3>. QED
      BY <2>1, <3>3 DEF In
  <2>3. CASE step # "left"
    BY <1>1, <2>1, <2>3 DEF In, heard
  <2>. QED
    BY <2>2, <2>3
<1>6. \A t \in Tab, k \in Party : Has(t, k)' => Has(t, k)
  BY <1>2, Had
<1>. QED
  BY <1>1, <1>2, <1>3, <1>4, <1>5, <1>6, Answering

\* The sockets fetched are put out: who has another party by then stays in
\* its room, who came back is told later.
LEMMA SweepHears ==
  ASSUME IInv, HInv, NEW s \in sweeps, Sweep(s)
  PROVE  HInv'
<1>1. UNCHANGED <<parties, playerParty, minted, sock, wire, hurried>>
  BY DEF Sweep, storeVars, asks
<1>2. Falls
  BY <1>1, StillFalls
<1>3. \A t \in Tab : /\ active'[t] = IF t \in s.tabs THEN NoParty ELSE active[t]
                     /\ rooms'[t] = IF t \in s.tabs THEN rooms[t] \ {s.party} ELSE rooms[t]
  BY DEF Sweep
<1>4. ActiveMinted'
  BY <1>1, <1>3 DEF HInv, ActiveMinted
<1>5. Agreed' /\ Once(wire', hurried')
  BY <1>1, <1>2, AgreedAfter DEF HInv, Queued
<1>6. Hears'
  <2>. SUFFICES ASSUME NEW t \in Tab, NEW k \in Party, Has(t, k)'
                PROVE  HearsOf(t, k)'
    BY DEF Hears
  <2>1. HearsOf(t, k) /\ k # NoParty
    BY <1>2, Had, PartySessionAssumption DEF HInv, Hears
  <2>2. Swept(t, k)' => Later(wire', ready', t, k)
    <3>1. Swept(t, k)' => Swept(t, k) /\ ready' = ready
      BY DEF Sweep, Swept
    <3>. QED
      BY <1>1, <2>1, <3>1 DEF HearsOf
  <2>3. sock'[t] = "on" => In(t, k)' \/ Told(wire', t, k)
    <3>. SUFFICES ASSUME sock[t] = "on", In(t, k)
                  PROVE  In(t, k)' \/ Told(wire, t, k)
      BY <1>1, <2>1 DEF HearsOf
    <3>1. CASE t \notin s.tabs
      BY <1>3, <3>1 DEF In, Sweep
    <3>2. CASE t \in s.tabs /\ s.party # k
      <4>1. k \in rooms'[t]
        BY <1>3, <3>2 DEF In
      <4>2. t \in overtaken'
        BY <2>1, <3>2 DEF In, Sweep
      <4>. QED
        BY <4>1, <4>2 DEF In
    <3>3. CASE t \in s.tabs /\ s.party = k
      <4>1. Later(wire, ready, t, k)
        BY <2>1, <3>3 DEF HearsOf, Swept
      <4>. QED
        BY <4>1 DEF Later, Told, Tells, Wrote, Answers
    <3>. QED
      BY <3>1, <3>2, <3>3
  <2>. QED
    BY <1>1, <2>1, <2>2, <2>3 DEF HearsOf
<1>. QED
  BY <1>4, <1>5, <1>6 DEF HInv

\* A tab that has just opened is put in the room of its user's party.
LEMMA RestoreHears ==
  ASSUME IInv, HInv, Restore
  PROVE  HInv'
<1>1. /\ wire # <<>> /\ Reply.at = "restore" /\ Resumes("restore") /\ Return
      /\ UNCHANGED <<parties, playerParty, minted, sock, hurried>>
  BY DEF Restore, Resumes, storeVars, asks
<1>2. Falls
  BY <1>1, StillFalls
<1>. PICK r \in Frame : r = Reply /\ Agrees(r)
  BY <1>1, ReplyAgrees
<1>3. r.tab \in Tab /\ r.party \in minted \cup {NoParty}
  BY <1>1, FrameCarries DEF Agrees
<1>4. \A t \in Tab : IF t = r.tab /\ r.party # NoParty
                     THEN active'[t] = r.party /\ rooms'[t] = rooms[t] \cup {r.party}
                     ELSE active'[t] = active[t] /\ rooms'[t] = rooms[t] /\ (t \in overtaken => t \in overtaken')
  BY <1>1 DEF Restore, IInv, Typed, heard
<1>5. ActiveMinted'
  BY <1>1, <1>3, <1>4 DEF HInv, ActiveMinted
<1>6. ASSUME NEW t \in Tab, NEW k \in Party, Has(t, k)'
      PROVE  /\ Tells(Reply, t, k) => In(t, k)'
             /\ In(t, k) => In(t, k)' \/ Strays(Reply, t, k)
  <2>0. k # NoParty
    BY PartySessionAssumption
  <2>1. Tells(r, t, k) => In(t, k)'
    BY <1>1, <1>4, <2>0 DEF Tells, Answers, In
  <2>2. In(t, k) => In(t, k)' \/ Strays(r, t, k)
    BY <1>1, <1>4, <2>0 DEF Strays, In
  <2>. QED
    BY <2>1, <2>2
<1>. QED
  BY <1>1, <1>2, <1>5, <1>6, SweepsWait, Answering DEF Return

-----------------------------------------------------------------------------
(* Tabs come and go *)

\* A tab opens, and asks for the user's party.
LEMMA ConnectHears ==
  ASSUME IInv, HInv, NEW t \in Tab, Connect(t)
  PROVE  HInv'
<1>0. Owner[t] \in User /\ playerParty[Owner[t]] \in MaybeParty /\ playerParty[Owner[t]] \in minted \cup {NoParty}
  BY KeyExists, PartySessionAssumption DEF IInv, Sound
<1>. PICK k \in MaybeParty : k = playerParty[Owner[t]]
  BY <1>0
<1>. DEFINE f == [at |-> "restore", tab |-> t, party |-> k]
<1>1. /\ UNCHANGED <<parties, playerParty, minted, heard, hurried>> /\ wire' = Append(wire, f)
      /\ sock' = [sock EXCEPT ![t] = "on"] /\ sweeps' = {}
  BY DEF Connect, Issue, Idle, storeVars, asks
<1>2. f \in Frame /\ f.at = "restore" /\ f.tab = t /\ f.party = k
  BY DEF Frame
<1>. HIDE DEF f
<1>3. Falls
  BY <1>1, StillFalls
<1>4. Agrees(f)'
  <2>1. Agrees(f)
    BY <1>0, <1>2 DEF Agrees, Answers
  <2>. QED
    BY <1>2, <1>3, <2>1, AgreesFalls
<1>5. \A s \in Tab : s # t => sock'[s] = sock[s]
  BY <1>1 DEF IInv, Typed
<1>6. \A s \in Tab, x \in Party : Has(s, x)' =>
        /\ ~Strays(f, s, x) /\ ~Kicks(f, Owner[s], x)
        /\ sock'[s] = "on" => Tells(f, s, x) \/ (sock[s] = "on" /\ rooms'[s] = rooms[s])
  <2>. SUFFICES ASSUME NEW s \in Tab, NEW x \in Party, Has(s, x)'
                PROVE  /\ ~Strays(f, s, x) /\ ~Kicks(f, Owner[s], x)
                       /\ sock'[s] = "on" => Tells(f, s, x) \/ (sock[s] = "on" /\ rooms'[s] = rooms[s])
    OBVIOUS
  <2>1. s = t => k = x
    BY <1>1 DEF Has
  <2>2. ~Strays(f, s, x) /\ ~Kicks(f, Owner[s], x)
    BY <1>2, <2>1 DEF Strays, Kicks
  <2>3. CASE s = t
    BY <1>2, <2>1, <2>2, <2>3 DEF Tells
  <2>4. CASE s # t
    BY <1>1, <1>5, <2>2, <2>4 DEF heard
  <2>. QED
    BY <2>3, <2>4
<1>7. ~Own(f)
  BY <1>2 DEF Own
<1>. QED
  BY <1>1, <1>2, <1>3, <1>4, <1>6, <1>7, Adding DEF heard

\* handlePartyDisconnect: the store and the frame it may issue.
LEMMA DropFalls ==
  ASSUME IInv, HInv, NEW t \in Tab, NEW others, NEW after \in Seq(Frame), LeaveOnDrop(t, others, after),
         minted' = minted, hurried' = hurried
  PROVE  /\ Falls
         /\ \/ wire' = after
            \/ \E f \in Frame : wire' = Append(after, f) /\ f.at = "goneLeft" /\ Agrees(f)'
<1>1. CASE active[t] = NoParty \/ \E s \in others : active[s] = active[t]
  BY <1>1, StillFalls DEF LeaveOnDrop
<1>2. CASE ~(active[t] = NoParty \/ \E s \in others : active[s] = active[t])
  <2>0. active[t] \in Party /\ active[t] \in minted /\ Owner[t] \in User
    BY <1>2, PartySessionAssumption DEF IInv, Typed, MaybeParty, HInv, ActiveMinted
  <2>. PICK p \in Party : p = active[t]
    BY <2>0
  <2>. PICK b \in BOOLEAN : b = Disbands(p, Owner[t])
    BY DEF Disbands
  <2>. DEFINE f == [at |-> "goneLeft", party |-> p, disbanded |-> b]
  <2>1. LeaveScript(p, Owner[t]) /\ wire' = Append(after, f)
    BY <1>2 DEF LeaveOnDrop
  <2>2. Falls /\ (b => ~Exists(p)')
    BY <2>0, <2>1, LeaveFalls DEF IInv
  <2>3. f \in Frame /\ f.at = "goneLeft" /\ f.party = p /\ f.disbanded = b
    BY DEF Frame
  <2>. HIDE DEF f
  <2>4. Agrees(f)'
    BY <2>0, <2>2, <2>3 DEF Agrees, Answers
  <2>. QED
    BY <2>1, <2>2, <2>3, <2>4
<1>. QED
  BY <1>1, <1>2

\* A tab closes.
LEMMA DisconnectHears ==
  ASSUME IInv, HInv, NEW t \in Tab, Disconnect(t)
  PROVE  HInv'
<1>0. wire \in Seq(Frame)
  BY DEF IInv, Typed
<1>1. /\ sock' = [sock EXCEPT ![t] = "gone"] /\ rooms' = [rooms EXCEPT ![t] = {}]
      /\ UNCHANGED <<minted, active, overtaken, hurried, sweeps, ready>> /\ sweeps' = {}
  BY DEF Disconnect, Idle
<1>2. \A s \in Tab : sock'[s] = "on" => sock[s] = "on" /\ rooms'[s] = rooms[s]
  BY <1>1 DEF IInv, Typed
<1>3. ASSUME Falls, NEW f \in Frame, wire' = Append(wire, f), f.at \in {"dropped", "goneLeft"}, Agrees(f)'
      PROVE  HInv'
  <2>1. ~Own(f) /\ \A s, k : ~Strays(f, s, k) /\ ~Kicks(f, Owner[s], k)
    BY <1>3 DEF Own, Strays, Kicks
  <2>. QED
    BY <1>1, <1>2, <1>3, <2>1, Adding
<1>4. CASE \E others : LeaveOnDrop(t, others, wire)
  <2>1. Falls /\ (wire' = wire \/ \E f \in Frame : wire' = Append(wire, f) /\ f.at = "goneLeft" /\ Agrees(f)')
    BY <1>0, <1>1, <1>4, DropFalls
  <2>. QED
    BY <1>1, <1>2, <1>3, <2>1, Staying
<1>5. CASE UNCHANGED <<parties, playerParty>> /\ \E others \in SUBSET Tab : Issue([at |-> "dropped", tab |-> t, others |-> others])
  <2>1. PICK others \in SUBSET Tab : Issue([at |-> "dropped", tab |-> t, others |-> others])
    BY <1>5
  <2>. DEFINE f == [at |-> "dropped", tab |-> t, others |-> others]
  <2>2. f \in Frame /\ f.at = "dropped" /\ wire' = Append(wire, f)
    BY <2>1 DEF Frame, Issue
  <2>. HIDE DEF f
  <2>3. Falls
    BY <1>1, <1>5, StillFalls
  <2>4. Agrees(f)'
    BY <2>2 DEF Agrees, Answers
  <2>. QED
    BY <1>3, <2>2, <2>3, <2>4
<1>6. TabsOf(Owner[t]) \ {t} \in SUBSET Tab
  BY DEF TabsOf
<1>. QED
  BY <1>4, <1>5, <1>6 DEF Disconnect

\* The last tab of a user had no room: the party is left now.
LEMMA DroppedHears ==
  ASSUME IInv, HInv, Dropped
  PROVE  HInv'
<1>1. /\ wire # <<>> /\ Reply.at = "dropped" /\ LeaveOnDrop(Reply.tab, Reply.others, Tail(wire))
      /\ Resumes("dropped") /\ Continue
      /\ UNCHANGED <<minted, sock, heard, hurried>>
  BY DEF Dropped, Resumes, asks
<1>2. Reply \in Frame /\ Reply.tab \in Tab /\ Tail(wire) \in Seq(Frame)
  BY <1>1, ReplyAgrees, FrameCarries, Queue
<1>3. /\ Falls
      /\ \/ wire' = Tail(wire)
         \/ \E f \in Frame : wire' = Append(Tail(wire), f) /\ f.at = "goneLeft" /\ Agrees(f)'
  BY <1>1, <1>2, DropFalls
<1>4. \A t, k : ~Tells(Reply, t, k) /\ ~Wrote(Reply, {"joined"}, Owner[t], k)
  BY <1>1 DEF Tells, Wrote, Answers
<1>5. CASE wire' = Tail(wire)
  <2>1. ActiveMinted' /\ \A t, k : In(t, k) => In(t, k)'
    BY <1>1 DEF HInv, ActiveMinted, In, heard
  <2>. QED
    BY <1>1, <1>3, <1>4, <1>5, <2>1, SweepsWait, Answering
<1>6. ASSUME NEW f \in Frame, wire' = Append(Tail(wire), f), f.at = "goneLeft", Agrees(f)'
      PROVE  HInv'
  <2>1. ~Own(f) /\ \A t, k : ~Strays(f, t, k) /\ ~Kicks(f, Owner[t], k)
    BY <1>6 DEF Own, Strays, Kicks
  <2>. QED
    BY <1>1, <1>3, <1>4, <1>6, <2>1, AnsweringThen
<1>. QED
  BY <1>3, <1>5, <1>6

-----------------------------------------------------------------------------
\* No tab is open, and nothing is queued, at the start.
LEMMA HearInit == Init => HInv
<1>. SUFFICES ASSUME Init
              PROVE  HInv
  OBVIOUS
<1>1. wire = <<>> /\ DOMAIN wire = {} /\ Queued(wire) = {}
  BY DEF Init, Queued
<1>. QED
  BY <1>1, PartySessionAssumption DEF Init, HInv, Once, Agreed, ActiveMinted, Hears, Has

\* Every step keeps every tab about to hear of its party.
LEMMA HearNext == IInv /\ HInv /\ [Next]_vars => HInv'
<1>. SUFFICES ASSUME IInv, HInv, [Next]_vars
              PROVE  HInv'
  OBVIOUS
<1>1. CASE Created \/ Accepted \/ Sync
  <2>1. /\ \E step \in Answers \ {"joined"} : Resumes(step)
        /\ SetMembership(Owner[Reply.tab], Reply.party)
        /\ Return /\ UNCHANGED <<parties, playerParty, minted, sock, hurried>>
    BY <1>1 DEF Created, Accepted, Sync, Answers, storeVars, asks
  <2>. QED
    BY <2>1, MembershipHears
<1>2. CASE CheckInvite
  BY <1>2, NothingHears DEF CheckInvite, storeVars, asks
<1>3. CASE Accept
  <2>1. CASE MayJoin(Reply.party, Owner[Reply.tab])
    BY <1>3, <2>1, JoinHears
  <2>2. CASE ~MayJoin(Reply.party, Owner[Reply.tab])
    BY <1>3, <2>2, NothingHears DEF Accept, asks
  <2>. QED
    BY <2>1, <2>2
<1>4. CASE RemoveInvite \/ SyncParty \/ Left \/ Kicked \/ GoneLeft \/ Restore \/ Dropped
  BY <1>4, RemoveHears, SyncPartyHears, OutHears, RestoreHears, DroppedHears
<1>5. ASSUME NEW t \in Tab, Connect(t) \/ Disconnect(t) \/ AskLeave(t) \/ AskSync(t)
      PROVE  HInv'
  BY <1>5, ConnectHears, DisconnectHears, LeaveHears, AskHears
<1>6. ASSUME NEW t \in Tab, NEW p \in Party, AskCreate(t, p) \/ AskAccept(t, p) \/ Decline(t, p)
      PROVE  HInv'
  BY <1>6, CreateHears, AskHears, QuietHears
<1>7. ASSUME NEW t \in Tab, NEW u \in User, AskInvite(t, u) \/ AskKick(t, u)
      PROVE  HInv'
  BY <1>7, AskHears, KickHears
<1>8. CASE \/ \E u \in User, p \in Party : Invite(u, p) \/ LapseInvite(u, p)
           \/ \E u \in User : LapseKey(u)
           \/ \E p \in Party : LapseParty(p)
           \/ UNCHANGED vars
  BY <1>8, QuietHears
<1>9. ASSUME NEW s \in sweeps, Sweep(s)
      PROVE  HInv'
  BY <1>9, SweepHears
<1>. QED
  BY <1>1, <1>2, <1>3, <1>4, <1>5, <1>6, <1>7, <1>8, <1>9 DEF Next

\* When nothing is under way, every open tab of somebody with a party is in
\* its room, for any users, tabs and order of requests and sweeps, unless the
\* user's own requests overlapped: setUserPartyMembership and restoreSession
\* leave no tab out, and no put-out (partyHandlers.ts:198, 234, 370) undoes
\* them.  Its activePartyId says so too, unless another party's put-out came
\* in between.
THEOREM PartyAlwaysHeard == Spec => []PartyIsHeard
<1>1. IInv /\ HInv => PartyIsHeard
  <2>. SUFFICES ASSUME IInv, HInv, wire = <<>>, sweeps = {}, NEW t \in Tab,
                       sock[t] = "on", playerParty[Owner[t]] # NoParty, Owner[t] \notin hurried
                PROVE  In(t, playerParty[Owner[t]])
    BY DEF PartyIsHeard, In
  <2>1. playerParty[Owner[t]] \in Party /\ Has(t, playerParty[Owner[t]])
    BY KeyExists, PartySessionAssumption DEF IInv, Has
  <2>2. In(t, playerParty[Owner[t]]) \/ Told(<<>>, t, playerParty[Owner[t]])
    BY <2>1 DEF HInv, Hears, HearsOf
  <2>. QED
    BY <2>2 DEF Told
<1>. QED
  BY <1>1, InitKeeps, NextKeeps, HearInit, HearNext, PTL DEF Spec

=============================================================================
