---------------------------- MODULE MCGilConnect ----------------------------
(* Instances of GilConnect for TLC. *)
EXTENDS GilConnect

CONSTANTS a, b, c

(* A ring of three, two of which also connect the other way: knots of two  *)
(* and of three, a process that runs into a knot of others, and one that    *)
(* connects to its own server.                                              *)
MCRoutes == {<<a, b>>, <<b, c>>, <<c, a>>, <<b, a>>, <<c, c>>}
=============================================================================
