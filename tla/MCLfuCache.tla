---------------------------- MODULE MCLfuCache ----------------------------
(* Keys and values are interchangeable: no operation compares or orders them. *)
EXTENDS LfuCache, TLC

Symmetry == Permutations(Key) \cup Permutations(Value)
=============================================================================
