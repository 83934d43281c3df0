------------------------------- MODULE MCCron -------------------------------
(* Instances of Cron for TLC: the crontabs that the runs schedule.  9 is an  *)
(* instant beyond every horizon: the schedules that have it never run out.   *)
EXTENDS Cron

Jobs == {"a"}
TwoJobs == {"a", "b"}

Pair == [j \in Jobs |-> {2, 3, 9}]
Mixed == [j \in TwoJobs |-> IF j = "a" THEN {2, 3, 9} ELSE {3, 9}]
Exhausted == [j \in Jobs |-> {2}]
=============================================================================
