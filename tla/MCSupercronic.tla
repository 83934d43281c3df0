--------------------------- MODULE MCSupercronic ---------------------------
(* Instances of Supercronic for TLC.  9 is an instant beyond the horizon. *)
EXTENDS Supercronic

Jobs == {"a", "b"}
Schedules == [j \in Jobs |-> {2, 9}]
Crontabs == {{"a"}, {"b"}}
=============================================================================
