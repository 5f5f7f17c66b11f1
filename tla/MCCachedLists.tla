---------------------------- MODULE MCCachedLists ---------------------------
(* Small instances of CachedLists. *)
EXTENDS CachedLists

MCCartInputs == {<<Line("p1", 1)>>}
=============================================================================
