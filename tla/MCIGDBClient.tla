---------------------------- MODULE MCIGDBClient ----------------------------
(* Instances of IGDBClient for TLC. *)
EXTENDS IGDBClient
=============================================================================
