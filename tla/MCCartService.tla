--------------------------- MODULE MCCartService ----------------------------
(* Small instances of CartService. *)
EXTENDS CartService

MCCartInputs == {<<Line("p1", 1)>>}
=============================================================================
