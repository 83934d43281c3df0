------------------------------ MODULE MCReaper ------------------------------
(* Instances of Reaper for TLC. *)
EXTENDS Reaper

Orphans == {"o1", "o2"}
Codes == {0, 1, -1}
=============================================================================
