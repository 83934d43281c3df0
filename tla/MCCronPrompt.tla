---------------------------- MODULE MCCronPrompt ----------------------------
(* The instance of CronPrompt for TLC.  9 is beyond the horizon.            *)
EXTENDS CronPrompt

Jobs == {"a"}

Dense == [j \in Jobs |-> {2, 3, 4, 5, 9}]
=============================================================================
