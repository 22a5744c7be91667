---------------------------- MODULE MCVllmServer ----------------------------
(* Instances of VllmServer for TLC. *)
EXTENDS VllmServer
=============================================================================
