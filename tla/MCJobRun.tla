------------------------------ MODULE MCJobRun ------------------------------
(* Instances of JobRun for TLC. *)
EXTENDS JobRun

Procs == {"shell", "background"}
=============================================================================
