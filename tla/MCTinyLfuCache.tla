-------------------------- MODULE MCTinyLfuCache --------------------------
(* Two rows: the first is shared by k1 and k2, the second by k2 and k3. *)
EXTENDS TinyLfuCache

MCKey == {"k1", "k2", "k3"}

MCColumn == [d \in Row |-> [k \in MCKey |->
  CASE k = "k1" -> 0 [] k = "k2" -> d [] k = "k3" -> 1]]
=============================================================================
