---------------------------- MODULE MCTtlCache ----------------------------
(* Keys, values and threads are interchangeable. *)
EXTENDS TtlCache, TLC

Symmetry == Permutations(Key) \cup Permutations(Value) \cup Permutations(Thread)
=============================================================================
