------------------------------ MODULE Recency ------------------------------
(***************************************************************************)
(* Recency orders: sequences without repetition, most recent first, and    *)
(* the moves an access makes on them.  They are given by position, which   *)
(* is what the proofs about linked lists reason with.                      *)
(***************************************************************************)
EXTENDS Naturals, Sequences

\* A HashMap with no entry.
EmptyMap == [x \in {} |-> x]

Injective(s) == \A p, q \in 1..Len(s) : s[p] = s[q] => p = q

Elements(s) == {s[p] : p \in 1..Len(s)}

\* The place of x in a sequence that holds it once.
Position(s, x) == CHOOSE p \in 1..Len(s) : s[p] = x

Without(s, x) ==
  [p \in 1..(Len(s) - 1) |-> IF p < Position(s, x) THEN s[p] ELSE s[p + 1]]

Push(s, x) == [p \in 1..(Len(s) + 1) |-> IF p = 1 THEN x ELSE s[p - 1]]

ToFront(s, x) == Push(Without(s, x), x)
=============================================================================
