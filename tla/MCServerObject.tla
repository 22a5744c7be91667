--------------------------- MODULE MCServerObject ---------------------------
(* Instances of ServerObject for TLC. *)
EXTENDS ServerObject
=============================================================================
