-------------------------- MODULE MCShardedCache --------------------------
(* Two shards; two keys hash to the first, one to the second. *)
EXTENDS ShardedCache

MCKey == {"a", "b", "c"}

MCHash == [k \in MCKey |-> CASE k = "a" -> 6 [] k = "b" -> 4 [] k = "c" -> 7]
=============================================================================
