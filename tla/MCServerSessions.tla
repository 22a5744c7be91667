-------------------------- MODULE MCServerSessions --------------------------
(* Instances of ServerSessions for TLC. *)
EXTENDS ServerSessions, TLC

CONSTANTS r1, r2

ShortLen == [r \in ReqIds |-> 4]

Symmetry == Permutations(Clients) \cup Permutations(ReqIds)
=============================================================================
