------------------------------ MODULE MCPlayer ------------------------------
(* A page of two results, two calls in flight; the saver is off or puts    *)
(* the panel to sleep, after one tick or two.                              *)
EXTENDS Player

MCModes    == {"off", "sleep"}
MCTimeouts == {1, 2}
=============================================================================
