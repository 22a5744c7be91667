------------------------- MODULE MCExampleTransfer -------------------------
(* Instances of ExampleTransfer for TLC. *)
EXTENDS ExampleTransfer
=============================================================================
