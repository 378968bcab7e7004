----------------------------- MODULE MCJobQueue -----------------------------
(* Instances of JobQueue for TLC. *)
EXTENDS JobQueue

Maybe == {TRUE, FALSE}
=============================================================================
