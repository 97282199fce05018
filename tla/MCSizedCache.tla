--------------------------- MODULE MCSizedCache ---------------------------
(***************************************************************************)
(* Values whose weights are nothing, a third, all and more than all of a   *)
(* max_weight of 3.                                                        *)
(***************************************************************************)
EXTENDS SizedCache

MCValue == {"empty", "unit", "full", "huge"}

MCWeight == [v \in MCValue |-> CASE v = "empty" -> 0
                                 [] v = "unit" -> 1
                                 [] v = "full" -> 3
                                 [] v = "huge" -> 4]
=============================================================================
