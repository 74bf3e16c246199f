----------------------------- MODULE PartySession -----------------------------
(***************************************************************************)
(* Parties: the Redis scripts of backend/src/services/party.ts, the        *)
(* handlers of handlers/partyHandlers.ts, and what socket.ts does with     *)
(* activePartyId when a tab connects and disconnects.                      *)
(*                                                                         *)
(* As in RoomSession, an action is a stretch of code up to the next await, *)
(* Redis takes commands and answers in the order of issue, and `wire` is   *)
(* the queue of what handlers do with the answers.  The question whether   *)
(* two users are friends goes to the database, and comes back at any time. *)
(*                                                                         *)
(*   parties[p]      party:<id>              playerParty[u]  player:party:<id> *)
(*   invites         invite:<user>:<id>, by user and party                 *)
(*   asked           invitations waiting for the friends check             *)
(*   sock[t]         a browser tab's socket: connects once, drops once     *)
(*   active[t]       socket.data.activePartyId                             *)
(*   rooms[t]        the party rooms the socket is in                      *)
(*                                                                         *)
(* Who disbands a party, or kicks somebody, fetches the sockets of its     *)
(* room and goes on when they are there: the answers that have come by     *)
(* then go first, requests and events of tabs and answers of the database  *)
(* come later.  `sweeps` has the sockets fetched and not yet put out,      *)
(* `ready` is the number of answers that may go before them.               *)
(*                                                                         *)
(* Every user is a friend of every other.  Left out: failures of Redis,    *)
(* rate limits, chat, room invitations, several invitations of one user to *)
(* one party.                                                              *)
(***************************************************************************)
EXTENDS Naturals, Sequences, FiniteSets

CONSTANTS
  User, Tab,
  Owner,        \* [Tab -> User]
  Party, NoParty,
  MaxSize,      \* MAX_PARTY_SIZE
  Kinds,        \* the kinds of request and event a run includes
  MaxRequests   \* bound on the number of requests

ASSUME PartySessionAssumption ==
  /\ IsFiniteSet(User)
  /\ Owner \in [Tab -> User]
  /\ NoParty \notin Party
  /\ MaxSize \in Nat \ {0}
  /\ MaxRequests \in Nat

VARIABLES
  parties, playerParty, invites, asked, minted, sock, active, rooms, wire, sweeps, ready, budget,
  hurried,     \* users who asked something while a request of theirs was under way
  overtaken    \* tabs that another party's sweep left without activePartyId

storeVars == <<parties, playerParty, invites, minted>>
heard == <<active, rooms, overtaken>>
asks == <<budget, hurried>>
vars == <<storeVars, asked, sock, heard, wire, sweeps, ready, asks>>

MaybeParty == Party \cup {NoParty}

\* A party that is not in Redis has no members and nobody leads it.
NoRecord == [leader |-> {}, members |-> {}]
Record == [leader : {{u} : u \in User}, members : (SUBSET User) \ {{}}]

Frame ==
  [at : {"created", "accept", "joined", "accepted"}, tab : Tab, party : Party]
    \cup [at : {"checkInvite"}, tab : Tab, party : Party, target : User, copy : Record \cup {NoRecord}]
    \cup [at : {"left"}, tab : Tab, party : Party, disbanded : BOOLEAN]
    \cup [at : {"kicked"}, tab : Tab, party : Party, target : User]
    \cup [at : {"syncKey", "syncParty", "restore"}, tab : Tab, party : MaybeParty]
    \cup [at : {"dropped"}, tab : Tab, others : SUBSET Tab]
    \cup [at : {"goneLeft"}, party : Party, disbanded : BOOLEAN]

TypeOK ==
  /\ parties \in [Party -> Record \cup {NoRecord}]
  /\ \A p \in Party : Cardinality(parties[p].members) <= MaxSize /\ parties[p].leader \subseteq parties[p].members
  /\ playerParty \in [User -> MaybeParty]
  /\ invites \in SUBSET (User \X Party)
  /\ asked \in SUBSET (User \X Party)
  /\ minted \in SUBSET Party
  /\ sock \in [Tab -> {"new", "on", "gone"}]
  /\ active \in [Tab -> MaybeParty]
  /\ rooms \in [Tab -> SUBSET Party]
  /\ wire \in Seq(Frame)
  /\ sweeps \in SUBSET [party : Party, tabs : SUBSET Tab]
  /\ ready \in 0 .. Len(wire)
  /\ budget \in 0 .. MaxRequests
  /\ hurried \in SUBSET User
  /\ overtaken \in SUBSET Tab

Init ==
  /\ parties = [p \in Party |-> NoRecord]
  /\ playerParty = [u \in User |-> NoParty]
  /\ invites = {}
  /\ asked = {}
  /\ minted = {}
  /\ sock = [t \in Tab |-> "new"]
  /\ active = [t \in Tab |-> NoParty]
  /\ rooms = [t \in Tab |-> {}]
  /\ wire = <<>>
  /\ sweeps = {}
  /\ ready = 0
  /\ budget = MaxRequests
  /\ hurried = {}
  /\ overtaken = {}

-----------------------------------------------------------------------------
(* The scripts, each in one step of Redis *)

Exists(p) == parties[p] # NoRecord

CreateScript(p, u) ==
  /\ parties' = [parties EXCEPT ![p] = [leader |-> {u}, members |-> {u}]]
  /\ playerParty' = [playerParty EXCEPT ![u] = p]

MayJoin(p, u) ==
  /\ playerParty[u] \in {p, NoParty}
  /\ Exists(p)
  /\ Cardinality(parties[p].members) < MaxSize
  /\ u \notin parties[p].members

JoinScript(p, u) ==
  /\ parties' = [parties EXCEPT ![p].members = @ \cup {u}]
  /\ playerParty' = [playerParty EXCEPT ![u] = p]

\* Who leads leaves nobody behind.
Disbands(p, u) == Exists(p) => parties[p].leader = {u} \/ parties[p].members \subseteq {u}

Without(p, u) == IF Disbands(p, u) THEN NoRecord ELSE [parties[p] EXCEPT !.members = @ \ {u}]

\* Mutant: a party that is disbanded leaves its members' keys.
LeaveScriptKeepKeys(p, u) ==
  /\ parties' = [parties EXCEPT ![p] = Without(p, u)]
  /\ playerParty' = [playerParty EXCEPT ![u] = NoParty]

\* The key of who leaves is deleted whatever it says.
LeaveScript(p, u) ==
  LET freed == {u} \cup (IF Disbands(p, u) THEN parties[p].members ELSE {}) IN
  /\ parties' = [parties EXCEPT ![p] = Without(p, u)]
  /\ playerParty' = [v \in User |-> IF v \in freed THEN NoParty ELSE playerParty[v]]

MayKick(p, u, target) ==
  /\ parties[p].leader = {u}
  /\ target # u
  /\ target \in parties[p].members

KickScript(p, target) ==
  /\ parties' = [parties EXCEPT ![p].members = @ \ {target}]
  /\ playerParty' = [playerParty EXCEPT ![target] = NoParty]

-----------------------------------------------------------------------------
(* Requests, replies, and the tabs of a user *)

Spend(kind) ==
  /\ kind \in Kinds
  /\ budget > 0
  /\ budget' = budget - 1

\* Is a request of the tab under way?
Asking(t) ==
  \E i \in DOMAIN wire : wire[i].at \notin {"restore", "dropped", "goneLeft"} /\ wire[i].tab = t

\* Nothing from outside is handled until the sockets fetched are put out.
Idle == sweeps = {} /\ UNCHANGED <<sweeps, ready>>

Ask(t, kind) ==
  /\ sock[t] = "on"
  /\ Idle
  /\ Spend(kind)
  /\ hurried' = IF \E s \in Tab : Owner[s] = Owner[t] /\ Asking(s) THEN hurried \cup {Owner[t]} ELSE hurried

Issue(frame) == wire' = Append(wire, frame)

Reply == Head(wire)
Resumes(step) == wire # <<>> /\ Reply.at = step /\ (sweeps # {} => ready > 0)
Passed == IF sweeps = {} THEN 0 ELSE ready - 1
Continue == sweeps' = sweeps /\ ready' = Passed
Return == wire' = Tail(wire) /\ Continue
Then(frame) == wire' = Append(Tail(wire), frame) /\ Continue

TabsOf(u) == {t \in Tab : Owner[t] = u /\ sock[t] = "on"}

\* Mutant: membership is kept on the tab that acted.
SetMembershipOfOne(u, p) ==
  LET acted == TabsOf(u) \cap {Reply.tab} IN
  /\ active' = [t \in Tab |-> IF t \in acted THEN p ELSE active[t]]
  /\ rooms' = [t \in Tab |-> IF t \in acted THEN (rooms[t] \ {active[t]}) \cup ({p} \cap Party) ELSE rooms[t]]
  /\ overtaken' = overtaken \ acted

\* setUserPartyMembership
SetMembership(u, p) ==
  /\ active' = [t \in Tab |-> IF t \in TabsOf(u) THEN p ELSE active[t]]
  /\ rooms' = [t \in Tab |-> IF t \in TabsOf(u) THEN (rooms[t] \ {active[t]}) \cup ({p} \cap Party) ELSE rooms[t]]
  /\ overtaken' = overtaken \ TabsOf(u)

\* fetchSockets: the tabs that are in the room of p now, of the users `who`.
Fetch(p, who) ==
  LET tabs == {t \in Tab : sock[t] = "on" /\ p \in rooms'[t] /\ Owner[t] \in who} IN
  /\ wire' = Tail(wire)
  /\ \/ tabs = {} /\ Continue
     \/ /\ tabs # {}
        /\ sweeps' = sweeps \cup {[party |-> p, tabs |-> tabs]}
        /\ ready' \in IF sweeps = {} THEN 0 .. Len(Tail(wire)) ELSE {Passed}

\* The tabs fetched lose activePartyId, whatever it is by then, and leave the
\* room they were fetched from.
Sweep(s) ==
  /\ s \in sweeps
  /\ sweeps' = sweeps \ {s}
  /\ ready' = IF sweeps' = {} THEN 0 ELSE ready
  /\ active' = [t \in Tab |-> IF t \in s.tabs THEN NoParty ELSE active[t]]
  /\ rooms' = [t \in Tab |-> IF t \in s.tabs THEN rooms[t] \ {s.party} ELSE rooms[t]]
  /\ overtaken' = overtaken \cup {t \in s.tabs : active[t] \notin {s.party, NoParty}}
  /\ UNCHANGED <<storeVars, asked, sock, wire, asks>>

-----------------------------------------------------------------------------
(* party:create, party:invite, party:acceptInvite, party:declineInvite *)

\* The handler goes on with p, or with the error that the user is in a party.
AskCreate(t, p) ==
  LET free == playerParty[Owner[t]] = NoParty IN
  /\ p \notin minted
  /\ Ask(t, "create")
  /\ minted' = IF free THEN minted \cup {p} ELSE minted
  /\ IF free THEN CreateScript(p, Owner[t]) ELSE UNCHANGED <<parties, playerParty>>
  /\ IF free THEN Issue([at |-> "created", tab |-> t, party |-> p]) ELSE UNCHANGED wire
  /\ UNCHANGED <<invites, asked, sock, heard>>

Created ==
  /\ Resumes("created")
  /\ SetMembership(Owner[Reply.tab], Reply.party)
  /\ Return
  /\ UNCHANGED <<storeVars, asked, sock, asks>>

AskInvite(t, target) ==
  /\ active[t] # NoParty
  /\ target # Owner[t]
  /\ Ask(t, "invite")
  /\ Issue([at |-> "checkInvite", tab |-> t, party |-> active[t], target |-> target,
            copy |-> parties[active[t]]])
  /\ UNCHANGED <<storeVars, asked, sock, heard>>

\* Leader and members are those of the copy; then the database is asked.
CheckInvite ==
  /\ Resumes("checkInvite")
  /\ asked' = IF Reply.copy.leader = {Owner[Reply.tab]} /\ Reply.target \notin Reply.copy.members
              THEN asked \cup {<<Reply.target, Reply.party>>} ELSE asked
  /\ Return
  /\ UNCHANGED <<storeVars, sock, heard, asks>>

\* createInvite
Invite(u, p) ==
  /\ <<u, p>> \in asked
  /\ asked' = asked \ {<<u, p>>}
  /\ invites' = invites \cup {<<u, p>>}
  /\ Idle
  /\ UNCHANGED <<parties, playerParty, minted, sock, heard, wire, asks>>

AskAccept(t, p) ==
  /\ <<Owner[t], p>> \in invites
  /\ Ask(t, "accept")
  /\ Issue([at |-> "accept", tab |-> t, party |-> p])
  /\ UNCHANGED <<storeVars, asked, sock, heard>>

\* The invitation was there when it was read.
Accept ==
  LET u == Owner[Reply.tab] IN
  /\ Resumes("accept")
  /\ \/ /\ MayJoin(Reply.party, u)
        /\ JoinScript(Reply.party, u)
        /\ Then([Reply EXCEPT !.at = "joined"])
     \/ /\ ~MayJoin(Reply.party, u)
        /\ Return
        /\ UNCHANGED <<parties, playerParty>>
  /\ UNCHANGED <<invites, minted, asked, sock, heard, asks>>

RemoveInvite ==
  /\ Resumes("joined")
  /\ invites' = invites \ {<<Owner[Reply.tab], Reply.party>>}
  /\ Then([Reply EXCEPT !.at = "accepted"])
  /\ UNCHANGED <<parties, playerParty, minted, asked, sock, heard, asks>>

Accepted ==
  /\ Resumes("accepted")
  /\ SetMembership(Owner[Reply.tab], Reply.party)
  /\ Return
  /\ UNCHANGED <<storeVars, asked, sock, asks>>

Decline(t, p) ==
  /\ Ask(t, "decline")
  /\ invites' = invites \ {<<Owner[t], p>>}
  /\ UNCHANGED <<parties, playerParty, minted, asked, sock, heard, wire>>

-----------------------------------------------------------------------------
(* party:leave, party:kick, party:sync *)

AskLeave(t) ==
  LET p == active[t] IN
  /\ p # NoParty
  /\ Ask(t, "leave")
  /\ LeaveScript(p, Owner[t])
  /\ Issue([at |-> "left", tab |-> t, party |-> p, disbanded |-> Disbands(p, Owner[t])])
  /\ UNCHANGED <<invites, minted, asked, sock, heard>>

\* The leaver's tabs leave whatever party they are in; the tabs in the room
\* of a party that was disbanded are fetched.
Left ==
  /\ Resumes("left")
  /\ SetMembership(Owner[Reply.tab], NoParty)
  /\ IF Reply.disbanded THEN Fetch(Reply.party, User) ELSE Return
  /\ UNCHANGED <<storeVars, asked, sock, asks>>

AskKick(t, target) ==
  LET p == active[t] IN
  /\ p # NoParty
  /\ Ask(t, "kick")
  /\ MayKick(p, Owner[t], target)
  /\ KickScript(p, target)
  /\ Issue([at |-> "kicked", tab |-> t, party |-> p, target |-> target])
  /\ UNCHANGED <<invites, minted, asked, sock, heard>>

Kicked ==
  /\ Resumes("kicked")
  /\ UNCHANGED heard
  /\ Fetch(Reply.party, {Reply.target})
  /\ UNCHANGED <<storeVars, asked, sock, asks>>

AskSync(t) ==
  /\ Ask(t, "sync")
  /\ Issue([at |-> "syncKey", tab |-> t, party |-> playerParty[Owner[t]]])
  /\ UNCHANGED <<storeVars, asked, sock, heard>>

\* getParty, if there is a key
SyncParty ==
  /\ Resumes("syncKey")
  /\ Reply.party # NoParty
  /\ Then([Reply EXCEPT !.at = "syncParty", !.party = IF Exists(@) THEN @ ELSE NoParty])
  /\ UNCHANGED <<storeVars, asked, sock, heard, asks>>

Sync ==
  /\ Resumes("syncParty") \/ (Resumes("syncKey") /\ Reply.party = NoParty)
  /\ SetMembership(Owner[Reply.tab], Reply.party)
  /\ Return
  /\ UNCHANGED <<storeVars, asked, sock, asks>>

-----------------------------------------------------------------------------
(* Tabs come and go, keys lapse *)

Connect(t) ==
  /\ sock[t] = "new"
  /\ sock' = [sock EXCEPT ![t] = "on"]
  /\ Issue([at |-> "restore", tab |-> t, party |-> playerParty[Owner[t]]])
  /\ Idle
  /\ UNCHANGED <<storeVars, asked, heard, asks>>

\* restoreSession, whether the tab is still there or not
Restore ==
  /\ Resumes("restore")
  /\ \/ /\ Reply.party # NoParty
        /\ active' = [active EXCEPT ![Reply.tab] = Reply.party]
        /\ rooms' = [rooms EXCEPT ![Reply.tab] = @ \cup {Reply.party}]
        /\ overtaken' = overtaken \ {Reply.tab}
     \/ Reply.party = NoParty /\ UNCHANGED heard
  /\ Return
  /\ UNCHANGED <<storeVars, asked, sock, asks>>

\* handlePartyDisconnect, unless one of the other tabs is in the party
LeaveOnDrop(t, others, after) ==
  LET p == active[t] IN
  IF p = NoParty \/ \E s \in others : active[s] = p
  THEN /\ wire' = after
       /\ UNCHANGED <<parties, playerParty>>
  ELSE /\ LeaveScript(p, Owner[t])
       /\ wire' = Append(after, [at |-> "goneLeft", party |-> p, disbanded |-> Disbands(p, Owner[t])])

\* The last tab of a user, if it is in no room, asks Redis for one first.
Disconnect(t) ==
  LET others == TabsOf(Owner[t]) \ {t} IN
  /\ sock[t] = "on"
  /\ Spend("drop")
  /\ Idle
  /\ sock' = [sock EXCEPT ![t] = "gone"]
  /\ rooms' = [rooms EXCEPT ![t] = {}]
  /\ \/ LeaveOnDrop(t, others, wire)
     \/ /\ others = {}
        /\ Issue([at |-> "dropped", tab |-> t, others |-> others])
        /\ UNCHANGED <<parties, playerParty>>
  /\ UNCHANGED <<invites, minted, asked, active, overtaken, hurried>>

Dropped ==
  /\ Resumes("dropped")
  /\ Continue
  /\ LeaveOnDrop(Reply.tab, Reply.others, Tail(wire))
  /\ UNCHANGED <<invites, minted, asked, sock, heard, asks>>

GoneLeft ==
  /\ Resumes("goneLeft")
  /\ UNCHANGED heard
  /\ IF Reply.disbanded THEN Fetch(Reply.party, User) ELSE Return
  /\ UNCHANGED <<storeVars, asked, sock, asks>>

LapseInvite(u, p) ==
  /\ <<u, p>> \in invites
  /\ Spend("lapseInvite")
  /\ invites' = invites \ {<<u, p>>}
  /\ UNCHANGED <<parties, playerParty, minted, asked, sock, heard, wire, sweeps, ready, hurried>>

\* An hour after joining, however busy the party.
LapseKey(u) ==
  /\ playerParty[u] # NoParty
  /\ Spend("lapseKey")
  /\ playerParty' = [playerParty EXCEPT ![u] = NoParty]
  /\ UNCHANGED <<parties, invites, minted, asked, sock, heard, wire, sweeps, ready, hurried>>

\* An hour after the last change, which is later than any join.
LapseParty(p) ==
  /\ Exists(p)
  /\ \A u \in User : playerParty[u] # p
  /\ Spend("lapseParty")
  /\ parties' = [parties EXCEPT ![p] = NoRecord]
  /\ UNCHANGED <<playerParty, invites, minted, asked, sock, heard, wire, sweeps, ready, hurried>>

Next ==
  \/ Created \/ CheckInvite \/ Accept \/ RemoveInvite \/ Accepted
  \/ Left \/ Kicked \/ SyncParty \/ Sync \/ Restore \/ Dropped \/ GoneLeft
  \/ \E s \in sweeps : Sweep(s)
  \/ \E t \in Tab : Connect(t) \/ Disconnect(t) \/ AskLeave(t) \/ AskSync(t)
  \/ \E t \in Tab, p \in Party : AskCreate(t, p) \/ AskAccept(t, p) \/ Decline(t, p)
  \/ \E t \in Tab, u \in User : AskInvite(t, u) \/ AskKick(t, u)
  \/ \E u \in User, p \in Party : Invite(u, p) \/ LapseInvite(u, p)
  \/ \E u \in User : LapseKey(u)
  \/ \E p \in Party : LapseParty(p)

Spec == Init /\ [][Next]_vars

-----------------------------------------------------------------------------
(* Properties *)

\* Nobody is listed in two parties: "refuse if the player is already in a
\* party" (party.ts:93).  The scripts go by the key, and who leaves a party,
\* or is put out of one, loses the key of whatever party they are in by then.
OnePartyPerUser ==
  \A p, q \in Party : parties[p].members \cap parties[q].members # {} => p = q

\* A user's key names a party that is there and lists them: nobody is kept
\* out of every other party by one that is gone.
KeyMeansMember ==
  \A u \in User : playerParty[u] # NoParty => u \in parties[playerParty[u]].members

\* When nothing is under way, every open tab of somebody who has a party is
\* in its room, whichever of the tabs joined, was there or came later, and
\* its activePartyId says so, unless another party's sweep came after it was
\* set.  (Not so for a user whose requests overlapped.)
PartyIsHeard ==
  wire = <<>> /\ sweeps = {} =>
    \A t \in Tab :
      LET p == playerParty[Owner[t]] IN
      sock[t] = "on" /\ p # NoParty /\ Owner[t] \notin hurried =>
        p \in rooms[t] /\ (active[t] = p \/ t \in overtaken)

=============================================================================
