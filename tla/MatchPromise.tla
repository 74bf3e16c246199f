----------------------------- MODULE MatchPromise -----------------------------
(***************************************************************************)
(* What a match promises its players and the tables that count it,         *)
(* whatever happens on the board: the verdict is given once and stands,    *)
(* the match is closed once, and it counts unless every human is gone by   *)
(* then.  MatchSession implements it.                                      *)
(***************************************************************************)
CONSTANTS Human, Verdict, NoVerdict

VARIABLES stage, verdict, gone, record

vars == <<stage, verdict, gone, record>>

Init ==
  /\ stage = "open"
  /\ verdict = NoVerdict
  /\ gone = {}
  /\ record = "playing"

\* Humans go, and come back while the match has not been closed.
Move ==
  /\ stage # "closed"
  /\ gone' \in SUBSET Human
  /\ UNCHANGED <<stage, verdict, record>>

\* NoVerdict is the verdict of a draw, too.
Decide ==
  /\ stage = "open"
  /\ stage' = "decided"
  /\ verdict' \in Verdict \cup {NoVerdict}
  /\ gone' \in SUBSET Human
  /\ UNCHANGED record

\* A match that breaks down is closed in the middle of a step.
Close ==
  /\ stage # "closed"
  /\ stage' = "closed"
  /\ IF stage = "open" THEN verdict' \in Verdict \cup {NoVerdict} ELSE UNCHANGED verdict
  /\ gone' \in SUBSET Human
  /\ record' = IF Human # {} /\ gone' = Human THEN "aborted" ELSE "finished"

\* The server may take a match away: then it never counts.
Remove ==
  /\ stage # "closed"
  /\ stage' = "closed"
  /\ UNCHANGED <<verdict, gone, record>>

Next == Move \/ Decide \/ Close \/ Remove

Spec == Init /\ [][Next]_vars

=============================================================================
