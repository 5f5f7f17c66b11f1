--------------------------- MODULE MCProductSearch --------------------------
(* Small instances of ProductSearch; the constants are in the .cfg files. *)
EXTENDS ProductSearch
=============================================================================
