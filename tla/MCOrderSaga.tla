----------------------------- MODULE MCOrderSaga ----------------------------
(* Small instances of OrderSaga. *)
EXTENDS OrderProperties

\* One product, so that every request meets every other on the same line.
MCCartInputs == {<<Line("p1", 1)>>}

\* Handlers of one service are interchangeable, and so are users.
Symmetry == 
    Permutations(TWorkers) \cup Permutations(PWorkers) \cup Permutations(Users)
=============================================================================
