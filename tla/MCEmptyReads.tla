---------------------------- MODULE MCEmptyReads ----------------------------
(***************************************************************************)
(* ShardedCache with a record of the is_empty calls during which the cache *)
(* was empty at some moment.  As in an LruCache in which nothing panics,   *)
(* entries go by insert, remove and clear only.                            *)
(***************************************************************************)
EXTENDS MCShardedCache

VARIABLE bare   \* the threads whose last is_empty overlapped such a moment

NothingExpires ==
  \A i \in Index : shard'[i] # shard[i] => pc[owner[i]].op \in {"insert", "remove", "clear"}

NothingPanics == \A i \in Index : ~poisoned[i]

InitReads == Init /\ NothingPanics /\ bare = {}

NextReads ==
  /\ Next
  /\ NothingExpires /\ NothingPanics'
  /\ bare' = {t \in Thread : /\ pc'[t].op = "is_empty"
                             /\ \/ t \in bare /\ calls'[t] = calls[t]
                                \/ Cached' = {} /\ (pc[t].busy \/ pc'[t].busy)}

SpecReads == InitReads /\ [][NextReads]_<< vars, bare >>

\* is_empty answers true only if the cache was empty at some moment of the call
\* ("Returns `true` when the cache holds no entries.", src/src/cache.rs:82).
IsEmptyIsTrue ==
  \A t \in Thread : pc[t].op = "is_empty" /\ ~pc[t].busy /\ pc[t].sum = 0 => t \in bare
=============================================================================
