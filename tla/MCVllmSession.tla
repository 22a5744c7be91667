---------------------------- MODULE MCVllmSession ----------------------------
(* Instances of VllmSession for TLC. *)
EXTENDS VllmSession

(* Request ids are strings here: short ones of different lengths, so that  *)
(* one notification may be cut short by the size of another, and one whose *)
(* notification exceeds cpu_buffer.                                        *)
ShortIds == {"r1", "req2"}
AllIds == {"r1", "too_long"}

LengthOf(ids) ==
  [r \in ids |-> CASE r = "r1" -> 2 [] r = "req2" -> 4 [] OTHER -> 4084]

ShortLen == LengthOf(ShortIds)
AllLen == LengthOf(AllIds)
=============================================================================
