----------------------------- MODULE MCApiServer -----------------------------
(* Instances of ApiServer for TLC. *)
EXTENDS ApiServer

Maybe == {TRUE, FALSE}
=============================================================================
