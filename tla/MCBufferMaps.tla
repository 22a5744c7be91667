---------------------------- MODULE MCBufferMaps ----------------------------
(* Instances of BufferMaps for TLC. *)
EXTENDS BufferMaps

Block(base, offset, size) == [base |-> base, offset |-> offset, size |-> size]

(* One buffer; two neighbours, the second created from a block with an     *)
(* offset; two of the same base pointer, the shorter one last; and one     *)
(* that ends with the address space.                                       *)
Lists ==
  { <<Block(1, 0, 3)>>,
    <<Block(1, 0, 2), Block(3, 1, 2)>>,
    <<Block(2, 0, 4), Block(2, 0, 1)>>,
    <<Block(5, 0, 3)>> }
=============================================================================
