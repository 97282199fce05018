------------------------------- MODULE Arena -------------------------------
(***************************************************************************)
(* The arena-backed doubly linked list that src/src/lru.rs, tinylfu.rs and *)
(* sized.rs each carry a copy of: slots of a Vec hold the nodes, a stack   *)
(* of vacated slots is reused before the Vec grows, and head/tail are the  *)
(* most and the least recently used ends.                                  *)
(*                                                                         *)
(* An arena is a record                                                    *)
(*   nodes  the occupied slots of nodes: Vec<Option<Node>>, as a function  *)
(*          whose domain is the set of slots that hold Some(node)          *)
(*   slots  nodes.len(), the number of slots ever pushed                   *)
(*   free   free: Vec<usize>, a stack whose top is the last element        *)
(*   head, tail                                                            *)
(* Slot i stands for the Vec index i - 1, so that 0 can stand for None.    *)
(* A node is [item, prev, next]; item is what the cache stores in it.      *)
(***************************************************************************)
EXTENDS Recency

None == 0

Slot == Nat \ {0}

EmptyArena == [nodes |-> EmptyMap, slots |-> 0, free |-> << >>,
               head |-> None, tail |-> None]

Occupied(a) == DOMAIN a.nodes

\* Mutant: a vacated slot is not used again.
AllocIdx_fresh(a) == a.slots + 1

\* The slot the next alloc returns: the top of the free stack, else a new one.
AllocIdx(a) == IF a.free = << >> THEN a.slots + 1 ELSE a.free[Len(a.free)]

alloc(a, item) ==
  LET idx == AllocIdx(a) IN
    [nodes |-> [i \in Occupied(a) \cup {idx} |->
                  IF i = idx THEN [item |-> item, prev |-> None, next |-> None]
                  ELSE a.nodes[i]],
     slots |-> IF a.free = << >> THEN idx ELSE a.slots,
     free  |-> IF a.free = << >> THEN << >>
               ELSE SubSeq(a.free, 1, Len(a.free) - 1),
     head  |-> a.head,
     tail  |-> a.tail]

\* Mutant: the slot below is freed.
Vacated_below(a, idx) == Append(a.free, idx - 1)

\* The free stack once a slot has been vacated.
Vacated(a, idx) == Append(a.free, idx)

dealloc(a, idx) ==
  [nodes |-> [i \in Occupied(a) \ {idx} |-> a.nodes[i]],
   slots |-> a.slots,
   free  |-> Vacated(a, idx),
   head  |-> a.head,
   tail  |-> a.tail]

\* The neighbours are joined, then the node's own links are cleared.
unlink(a, idx) ==
  LET prev == a.nodes[idx].prev
      next == a.nodes[idx].next
  IN [nodes |-> [i \in Occupied(a) |->
                   [item |-> a.nodes[i].item,
                    prev |-> IF i = idx THEN None
                             ELSE IF i = next THEN prev ELSE a.nodes[i].prev,
                    next |-> IF i = idx THEN None
                             ELSE IF i = prev THEN next ELSE a.nodes[i].next]],
      slots |-> a.slots,
      free  |-> a.free,
      head  |-> IF prev = None THEN next ELSE a.head,
      tail  |-> IF next = None THEN prev ELSE a.tail]

push_front(a, idx) ==
  [nodes |-> [i \in Occupied(a) |->
                [item |-> a.nodes[i].item,
                 prev |-> IF i = a.head THEN idx
                          ELSE IF i = idx THEN None ELSE a.nodes[i].prev,
                 next |-> IF i = idx THEN a.head ELSE a.nodes[i].next]],
   slots |-> a.slots,
   free  |-> a.free,
   head  |-> idx,
   tail  |-> IF a.head = None THEN idx ELSE a.tail]

\* Mutants: the node is not taken out of its old place, or not moved at all.
promote_linked(a, idx) == IF a.head = idx THEN a ELSE push_front(a, idx)

promote_nothing(a, idx) == a

promote(a, idx) ==
  IF a.head = idx THEN a ELSE push_front(unlink(a, idx), idx)

\* The item of an occupied slot is overwritten in place; its links stay.
replace(a, idx, item) ==
  [nodes |-> [i \in Occupied(a) |->
                [item |-> IF i = idx THEN item ELSE a.nodes[i].item,
                 prev |-> a.nodes[i].prev,
                 next |-> a.nodes[i].next]],
   slots |-> a.slots,
   free  |-> a.free,
   head  |-> a.head,
   tail  |-> a.tail]
-----------------------------------------------------------------------------
(***************************************************************************)
(* What the list means.  A sequence of slots, most recently used first, is *)
(* the list of an arena when walking next from head visits exactly it and  *)
(* walking prev from tail visits it backwards.                             *)
(***************************************************************************)
Linked(a, s) ==
  /\ a.head = IF Len(s) = 0 THEN None ELSE s[1]
  /\ a.tail = IF Len(s) = 0 THEN None ELSE s[Len(s)]
  /\ \A p \in 1..Len(s) :
       /\ s[p] \in Occupied(a)
       /\ a.nodes[s[p]].prev = IF p = 1 THEN None ELSE s[p - 1]
       /\ a.nodes[s[p]].next = IF p = Len(s) THEN None ELSE s[p + 1]

\* s is the list, and it holds every occupied slot once.
InOrder(a, s) == Linked(a, s) /\ Injective(s) /\ Elements(s) = Occupied(a)

\* Every slot ever pushed is either occupied or exactly once on the stack.
FreeExact(a) ==
  /\ Injective(a.free)
  /\ Elements(a.free) = (1..a.slots) \ Occupied(a)
  /\ Occupied(a) \subseteq 1..a.slots

ArenaType(a, Item) ==
  /\ a.slots \in Nat
  /\ a.free \in Seq(Slot)
  /\ a.head \in Nat /\ a.tail \in Nat
  /\ Occupied(a) \subseteq Slot
  /\ \A i \in Occupied(a) :
       /\ a.nodes[i].item \in Item
       /\ a.nodes[i].prev \in Nat /\ a.nodes[i].next \in Nat
=============================================================================
