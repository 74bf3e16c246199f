--------------------------- MODULE MCCampaignLevel ---------------------------
(* CampaignLevel for TLC: one level per goal, in co-op and with a buddy. *)
EXTENDS CampaignLevel, TLC

Of(goal, limit, target, buddy, boss) ==
  [goal |-> goal, limit |-> limit, target |-> target, lives |-> 2, buddy |-> buddy, boss |-> boss]

AllLevels ==
  {Of("kill_all", 5, 0, {}, Boss), Of("kill_all", 3, 0, {2}, Boss), Of("find_exit", 5, 1, {2}, Boss),
   Of("reach_goal", 0, 0, {}, {}), Of("survive_time", 3, 0, {}, {})}
=============================================================================
