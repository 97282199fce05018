--------------------------- MODULE TinyLfuPolicy ---------------------------
(***************************************************************************)
(* What one shard of TinyLfuCache promises of its entries, whatever the    *)
(* filter decides (src/src/tinylfu.rs:16-26): an LRU cache that, when it   *)
(* is full, may turn a new key away, and then is as it was before.         *)
(***************************************************************************)
EXTENDS LruPolicy

\* The same happens when the key of the victim panics as it is cloned.
Reject(k) ==
  /\ k \notin DOMAIN entries
  /\ Cardinality(DOMAIN entries) >= Capacity
  /\ \/ reply' = << "insert", "none", k >>
     \/ reply' = << "insert", "panicked", k >>
  /\ UNCHANGED << entries, recency >>

FilteredSpec == Init /\ [][Next \/ \E k \in Key : Reject(k)]_vars
=============================================================================
