------------------------- MODULE MCCampaignSessions -------------------------
(* CampaignSessions for TLC: who owns which tab. *)
EXTENDS CampaignSessions, TLC

CONSTANTS u1, u2, t1, t2, s1, s2, s3

OneTabEach == (t1 :> u1) @@ (t2 :> u2)

Symmetry == Permutations(Session)

\* Of a level that has ended, and writes nothing any more, only its loop and
\* that it was there make a difference to what can happen next.
Dead(s) == info[s] # NoInfo /\ s \notin mgr.map /\ ending[s] # "writing"

Live == <<[mgr EXCEPT !.game = [s \in Session |-> IF Dead(s) THEN [mgr.game[s] EXCEPT !.departed = {}] ELSE mgr.game[s]]],
          [s \in Session |-> IF Dead(s) THEN [NoInfo EXCEPT !.users = User] ELSE info[s]],
          sock,
          [t \in Tab |-> IF active[t] # None /\ Dead(active[t]) THEN None ELSE active[t]],
          starts,
          [s \in Session |-> IF Dead(s) THEN "no" ELSE ending[s]],
          crossed>>
=============================================================================
