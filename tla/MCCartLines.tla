---------------------------- MODULE MCCartLines -----------------------------
(* Small instances of CartEdits; the constants are in the .cfg file. *)
EXTENDS CartEdits
=============================================================================
