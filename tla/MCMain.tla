------------------------------- MODULE MCMain -------------------------------
(* Instances of Main for TLC: two crontabs over two jobs. *)
EXTENDS Main

Jobs == {"a", "b"}
Crontabs == {{"a"}, {"a", "b"}}
=============================================================================
